---------------------------- MODULE Spec2Model ----------------------------
(***************************************************************************)
(* A model of the complex tasks of WorkArena                               *)
(*   src/src/browsergym/workarena/tasks/complex_tasks/comparison.py        *)
(*   src/src/browsergym/workarena/tasks/complex_tasks/conditional.py       *)
(*   src/src/browsergym/workarena/tasks/complex_tasks/loop.py              *)
(*                                                                         *)
(* Text is modelled as a sequence of one-character strings wherever the    *)
(* code looks inside it (the `in` operator of the comparison validators),  *)
(* and as a sequence of text fragments where the code only concatenates.   *)
(* Rewards are kept in tenths: 10 is 1.0, 5 is 0.5, 0 is 0.0.              *)
(***************************************************************************)
EXTENDS Integers, Sequences, FiniteSets, TLC

VARIABLES
    \* ---- a comparison task (comparison.py) ----
    kind,           \* which of the five Compare* classes the task is
    polarity,       \* self.earlier / self.higher / self.longer
    record1,        \* self.hardware1 / change1 / problem1 / incident1 / expense1
    record2,        \* self.hardware2 / change2 / problem2 / incident2 / expense2
    used_uuids,     \* the values uuid4() has returned so far
    chat_messages,  \* the transcript handed to cheat and validate
    cmp_pc,         \* the driver's position in the comparison episode
    cmp_ret,        \* what validate returned, while cmp_pc = "validated"
    cheat_log,      \* the subtask indices whose cheat was dispatched, in order
    driver,         \* how the driver calls cheat: one step at a time or in full
    \* ---- a conditional composite task (conditional.py) ----
    cond_class,     \* which of the five *ConditionalTask classes the task is
    subtasks,       \* the sequence _get_config returned; its last element is
                    \* the ConditionalTask
    env,            \* the record store: the edited record, the orders, the users
    calls,          \* the calls made on the two branch tasks, in order
    set_up,         \* the branch tasks whose setup has completed
    solved,         \* the branches whose actions were carried out, in order
    cond_pc,        \* the driver's position in the conditional episode
    cond_ret,       \* what the call just made returned
    \* ---- configuration sampling of a composite task (loop.py, comparison.py) ----
    smp_class,      \* the class of the task being set up
    smp_seed,       \* the seed the task was constructed with
    smp_id,         \* id(self) of the task object
    smp_items,      \* self.devices / users / requests / incidents / assets / problems
    smp_config,     \* the subtask sequence _get_config returned
    smp_goal,       \* the task description setup_goal built
    smp_pc,         \* the driver's position in the sampling episode
    first_run,      \* what the first setup_goal with this seed produced
    \* ---- an offboarding episode for one user (loop.py) ----
    ob_seq,         \* the composite's ordered sequence, self.subtasks
    ob_env,         \* the record store and the page the agent is on
    ob_pc,          \* the driver's position in the offboarding episode
    ob_ret,         \* what the composite-level validate returned
    \* ---- setup_goal of a composite task, with its collaborators (all three files) ----
    su_class,       \* the class of the task being set up
    su_fixed,       \* the fixed_config the task was constructed with, <<>> if none
    su_pool,        \* what all_configs() of the sampled template class returns
    su_ret,         \* what setup_goal did: the calls it made and how it ended
    su_pc,          \* the driver's position in the setup episode
    \* ---- setup, episode and teardown of a task that creates records (loop.py, comparison.py) ----
    td_class,       \* the class of the task
    td_users,       \* self.users, as the sys_ids of the users appended to it
    td_created,     \* the records the task created in the record store
    td_store,       \* the records of td_created that exist in the record store
    td_log,         \* the calls the last teardown made, in order
    td_pc,          \* the driver's position in the episode
    td_teardowns,   \* how many times teardown was called
    td_failed,      \* the pass of setup_goal in which a creation failed, 0 when none did
    \* ---- two episodes running side by side (loop.py, comparison.py) ----
    ep_class,       \* the class of the two tasks
    ep_a,           \* the identifiers the first task generated in setup_goal
    ep_b,           \* the identifiers the second task generated in setup_goal
    ep_pc,          \* for each of the two tasks: its position, its process and its id(self)
    \* ---- the amounts of CompareExpenseLineAmountTask._get_config (comparison.py) ----
    ex_amount1,     \* amount1
    ex_amount2,     \* amount2
    ex_pc           \* the position in _get_config

cmpVars ==
    <<kind, polarity, record1, record2, used_uuids, chat_messages, cmp_pc, cmp_ret,
      cheat_log, driver>>

condVars == <<cond_class, subtasks, env, calls, set_up, solved, cond_pc, cond_ret>>

smpVars == <<smp_class, smp_seed, smp_id, smp_items, smp_config, smp_goal, smp_pc, first_run>>

obVars == <<ob_seq, ob_env, ob_pc, ob_ret>>

suVars == <<su_class, su_fixed, su_pool, su_ret, su_pc>>

tdVars == <<td_class, td_users, td_created, td_store, td_log, td_pc, td_teardowns, td_failed>>

epVars == <<ep_class, ep_a, ep_b, ep_pc>>

exVars == <<ex_amount1, ex_amount2, ex_pc>>

vars == <<cmpVars, condVars, smpVars, obVars, suVars, tdVars, epVars, exVars>>

None == "None"

-----------------------------------------------------------------------------
(* Bounds of the model *)

\* the longest transcript the driver builds
MaxMessages == 2

\* how many times the driver calls cheat or validate on a ConditionalTask
MaxCalls == 2

\* how many times a branch's actions are carried out in one episode
MaxSolves == 2

-----------------------------------------------------------------------------
(* Text *)

\* the characters used, in code-point order (Python compares str by code point)
CharOrder ==
    <<" ", "-", "0", "1", "2", "3", "4", "5", "6", "7", "8", "9",
      "B", "C", "E", "G", "H", "I", "N", "P", "R", "S", "X",
      "a", "b", "c", "d", "e", "f", "g", "h", "i", "k", "n", "o", "p", "r", "s", "t", "x">>

Ord(c) == CHOOSE i \in 1..Len(CharOrder) : CharOrder[i] = c

\* Python `a < b` on str: lexicographic by code point, a proper prefix is smaller
RECURSIVE StrLess(_, _)
StrLess(a, b) ==
    IF b = <<>> THEN FALSE
    ELSE IF a = <<>> THEN TRUE
    ELSE IF Head(a) = Head(b) THEN StrLess(Tail(a), Tail(b))
    ELSE Ord(Head(a)) < Ord(Head(b))

Digits == <<"0", "1", "2", "3", "4", "5", "6", "7", "8", "9">>

DigitValue(c) == (CHOOSE i \in 1..Len(Digits) : Digits[i] = c) - 1

\* Python int(s) / float(s) on a string of decimal digits
RECURSIVE ToNumber(_)
ToNumber(s) ==
    IF s = <<>> THEN 0
    ELSE ToNumber(SubSeq(s, 1, Len(s) - 1)) * 10 + DigitValue(s[Len(s)])

\* Python `needle in hay` on str: a case-sensitive substring test
Contains(hay, needle) ==
    \E i \in 0..(Len(hay) - Len(needle)) : SubSeq(hay, i + 1, i + Len(needle)) = needle

-----------------------------------------------------------------------------
(* The comparison tasks: identifiers and comparator attributes *)

Kinds == {"CompareHardwareDate", "CompareChangeRequestPriority", "CompareProblemPriority",
          "CompareIncidentBusinessDuration", "CompareExpenseLineAmountTask"}

\* the prefix each _get_config puts before uuid4(): f"SN-{unique_id}", f"CHG{unique_id}", ...
NumberPrefix(k) ==
    CASE k = "CompareHardwareDate" -> <<"S", "N", "-">>
      [] k = "CompareChangeRequestPriority" -> <<"C", "H", "G">>
      [] k = "CompareProblemPriority" -> <<"P", "R", "B">>
      [] k = "CompareIncidentBusinessDuration" -> <<"I", "N", "C">>
      [] k = "CompareExpenseLineAmountTask" -> <<"E", "X", "P">>

\* values uuid4() can return, shortened: lowercase hex digits in groups joined
\* by "-", the third group starting with the version digit 4
Uuids ==
    { <<"1", "a", "-", "4", "b">>,
      <<"c", "2", "-", "4", "d">>,
      <<"e", "9", "-", "4", "f">> }

\* the comparator attribute values the template records (or randint) can give
AttrValues(k) ==
    CASE k = "CompareHardwareDate" ->
            { <<"2", "0", "2", "3", "-", "0", "1", "-", "0", "5">>,
              <<"2", "0", "2", "4", "-", "1", "1", "-", "2", "0">> }
      [] k \in {"CompareChangeRequestPriority", "CompareProblemPriority"} ->
            { <<"1">>, <<"4">> }
      [] k = "CompareIncidentBusinessDuration" ->
            { <<"9", "0", "0">>, <<"3", "6", "0", "0">> }
      [] k = "CompareExpenseLineAmountTask" ->
            { <<"1", "0", "0", "0">>, <<"9", "4", "2", "7">> }

\* a record of the record store as the task keeps it: its identifier
\* (serial_number / number) and its comparator attribute
\* (purchase_date / priority / business_duration / amount)
Record(k, uuid, attr) == [number |-> NumberPrefix(k) \o uuid, attr |-> attr]

\* the first operand is selected only on a strict comparison
PickFirst(k, pol, a1, a2) ==
    CASE k = "CompareHardwareDate" ->
            IF pol THEN StrLess(a1, a2) ELSE StrLess(a2, a1)
      [] k \in {"CompareChangeRequestPriority", "CompareProblemPriority"} ->
            IF pol THEN ToNumber(a1) < ToNumber(a2) ELSE ToNumber(a1) > ToNumber(a2)
      [] k = "CompareIncidentBusinessDuration" ->
            IF pol THEN StrLess(a2, a1) ELSE StrLess(a1, a2)
      [] k = "CompareExpenseLineAmountTask" ->
            IF pol THEN ToNumber(a1) > ToNumber(a2) ELSE ToNumber(a1) < ToNumber(a2)

get_selected(k, pol, r1, r2) ==
    IF PickFirst(k, pol, r1.attr, r2.attr) THEN r1 ELSE r2

-----------------------------------------------------------------------------
(* The transcript *)

\* a transcript entry is a dict, with or without a "message" key, or a plain str
Dict(role, text) == [form |-> "dict", role |-> role, has_message |-> TRUE, message |-> text]
DictNoMessage(role) == [form |-> "dict", role |-> role, has_message |-> FALSE, message |-> <<>>]
Str(text) == [form |-> "str", role |-> None, has_message |-> FALSE, message |-> text]

\* message.get("message", "") for a dict, the entry itself for a str
message_text(m) ==
    IF m.form = "dict"
    THEN (IF m.has_message THEN m.message ELSE <<>>)
    ELSE m.message

\* scan with the flag assigned on every entry instead of only raised
RECURSIVE scan_last_entry_wins(_, _, _)
scan_last_entry_wins(msgs, needle, found) ==
    IF msgs = <<>> THEN found
    ELSE scan_last_entry_wins(Tail(msgs), needle, Contains(message_text(Head(msgs)), needle))

\* scan that looks at the entries of the assistant only
RECURSIVE scan_assistant_only(_, _, _)
scan_assistant_only(msgs, needle, found) ==
    IF msgs = <<>> THEN found
    ELSE scan_assistant_only(Tail(msgs), needle,
              IF Head(msgs).role = "assistant" /\ Contains(message_text(Head(msgs)), needle)
              THEN TRUE ELSE found)

\* the for-loop of validate: one pass over the transcript setting the two flags
RECURSIVE scan(_, _, _)
scan(msgs, needle, found) ==
    IF msgs = <<>> THEN found
    ELSE scan(Tail(msgs), needle,
              IF Contains(message_text(Head(msgs)), needle) THEN TRUE ELSE found)

ValidateMessage(k, case) ==
    CASE k = "CompareHardwareDate" ->
            (CASE case = "both" -> "Correct hardware serial number and date identified."
               [] case = "id" -> "Hardware serial number found but date not mentioned."
               [] case = "attr" -> "Purchase date found but hardware serial number not mentioned."
               [] OTHER -> "Neither hardware serial number nor date were mentioned.")
      [] k = "CompareChangeRequestPriority" ->
            (CASE case = "both" -> "Correct change request number and priority identified."
               [] case = "id" -> "Change request number found but priority not mentioned."
               [] case = "attr" -> "Priority found but change request number not mentioned."
               [] OTHER -> "Neither change request number nor priority were mentioned.")
      [] k = "CompareProblemPriority" ->
            (CASE case = "both" -> "Correct problem number and priority identified."
               [] case = "id" -> "Problem number found but priority not mentioned."
               [] case = "attr" -> "Priority found but problem number not mentioned."
               [] OTHER -> "Neither problem number nor priority were mentioned.")
      [] k = "CompareIncidentBusinessDuration" ->
            (CASE case = "both" -> "Correct incident number and business duration identified."
               [] case = "id" -> "Incident number found but business duration not mentioned."
               [] case = "attr" -> "Business duration found but incident number not mentioned."
               [] OTHER -> "Neither incident number nor business duration were mentioned.")
      [] k = "CompareExpenseLineAmountTask" ->
            (CASE case = "both" -> "Correct expense line number and amount identified."
               [] case = "id" -> "Expense line number found but amount not mentioned."
               [] case = "attr" -> "Amount found but expense line number not mentioned."
               [] OTHER -> "Neither expense line number nor amount were mentioned.")

Result(reward, done, message) ==
    [reward |-> reward, done |-> done, message |-> message, info |-> <<>>]

\* the chain with no message on the last branch
validate_return_silent(k, found_number, found_attr) ==
    IF found_number /\ found_attr THEN Result(10, TRUE, ValidateMessage(k, "both"))
    ELSE IF found_number THEN Result(5, FALSE, ValidateMessage(k, "id"))
    ELSE IF found_attr THEN Result(5, FALSE, ValidateMessage(k, "attr"))
    ELSE Result(0, FALSE, "")

\* the if / elif chain that ends validate
validate_return(k, found_number, found_attr) ==
    IF found_number /\ found_attr THEN Result(10, TRUE, ValidateMessage(k, "both"))
    ELSE IF found_number THEN Result(5, FALSE, ValidateMessage(k, "id"))
    ELSE IF found_attr THEN Result(5, FALSE, ValidateMessage(k, "attr"))
    ELSE Result(0, FALSE, ValidateMessage(k, "neither"))

validate(k, pol, r1, r2, msgs) ==
    LET correct == get_selected(k, pol, r1, r2)
        found_number == scan(msgs, correct.number, FALSE)
        found_attr == scan(msgs, correct.attr, FALSE)
    IN  validate_return(k, found_number, found_attr)

-----------------------------------------------------------------------------
(* What the agent and the user may say *)

Exists == <<" ", "e", "x", "i", "s", "t", "s">>

LowerChar(c) ==
    CASE c = "B" -> "b" [] c = "C" -> "c" [] c = "E" -> "e" [] c = "G" -> "g"
      [] c = "H" -> "h" [] c = "I" -> "i" [] c = "N" -> "n" [] c = "P" -> "p"
      [] c = "R" -> "r" [] c = "S" -> "s" [] c = "X" -> "x" [] OTHER -> c

Lower(s) == [i \in 1..Len(s) |-> LowerChar(s[i])]

\* an identifier on its own, an attribute on its own, both together, the
\* identifier in the wrong case, and text that names neither
Texts(r1, r2) ==
    { r1.number \o Exists, r2.number \o Exists,
      r1.attr, r2.attr,
      r1.number \o <<" ">> \o r1.attr,
      Lower(r1.number), Lower(r2.number),
      <<"o", "k">> }

Entries(r1, r2) ==
    { Dict("assistant", t) : t \in Texts(r1, r2) }
        \cup { Dict("user", r2.number \o <<" ">> \o r2.attr),
               Str(r1.number \o Exists), Str(r2.attr), DictNoMessage("user") }

-----------------------------------------------------------------------------
(* The comparison episode *)

\* no task with a teardown episode
NoTeardown ==
    /\ td_class = None
    /\ td_users = <<>>
    /\ td_created = {}
    /\ td_store = {}
    /\ td_log = <<>>
    /\ td_pc = None
    /\ td_teardowns = 0
    /\ td_failed = 0

\* no pair of tasks side by side
NoEpisodes ==
    /\ ep_class = None
    /\ ep_a = {}
    /\ ep_b = {}
    /\ ep_pc = None

\* no expense amounts being drawn
NoExpense ==
    /\ ex_amount1 = 0
    /\ ex_amount2 = 0
    /\ ex_pc = None

\* no setup episode in this episode
NoSetup ==
    /\ su_class = None
    /\ su_fixed = <<>>
    /\ su_pool = <<>>
    /\ su_ret = None
    /\ su_pc = None

\* no conditional task in this episode
NoOffboard ==
    /\ ob_seq = <<>>
    /\ ob_env = None
    /\ ob_pc = None
    /\ ob_ret = None

NoSample ==
    /\ smp_class = None
    /\ smp_seed = 0
    /\ smp_id = 0
    /\ smp_items = <<>>
    /\ smp_config = <<>>
    /\ smp_goal = <<>>
    /\ smp_pc = None
    /\ first_run = <<>>

NoConditional ==
    /\ cond_class = None
    /\ subtasks = <<>>
    /\ env = None
    /\ calls = <<>>
    /\ set_up = {}
    /\ solved = <<>>
    /\ cond_pc = None
    /\ cond_ret = None

InitCompare ==
    /\ NoTeardown
    /\ NoEpisodes
    /\ NoExpense
    /\ NoSetup
    /\ NoConditional
    /\ NoSample
    /\ NoOffboard
    /\ kind \in Kinds
    /\ polarity \in BOOLEAN
    /\ record1 = None
    /\ record2 = None
    /\ used_uuids = {}
    /\ chat_messages = <<>>
    /\ cmp_pc = "constructed"
    /\ cmp_ret = None
    /\ cheat_log = <<>>
    /\ driver = None

\* setup_goal with no fixed_config: _get_config creates the two records, each
\* numbered with a fresh uuid4(), and stores what the record store returns
CompareSetupGoal ==
    /\ cmp_pc = "constructed"
    /\ \E a1 \in AttrValues(kind), a2 \in AttrValues(kind), u1 \in Uuids, u2 \in Uuids :
          /\ kind = "CompareExpenseLineAmountTask" => a1 # a2
          /\ u1 \notin used_uuids
          /\ u2 \notin used_uuids \cup {u1}
          /\ record1' = Record(kind, u1, a1)
          /\ record2' = Record(kind, u2, a2)
          /\ used_uuids' = used_uuids \cup {u1, u2}
    /\ cmp_pc' = "ready"
    /\ cmp_ret' = None
    /\ UNCHANGED <<kind, polarity, chat_messages, cheat_log, driver>>
    /\ UNCHANGED condVars
    /\ UNCHANGED smpVars
    /\ UNCHANGED obVars
    /\ UNCHANGED suVars
    /\ UNCHANGED <<tdVars, epVars, exVars>>

\* the chat appends an entry to the transcript
AppendMessage ==
    /\ cmp_pc \in {"ready", "validated"}
    /\ Len(chat_messages) < MaxMessages
    /\ \E m \in Entries(record1, record2) : chat_messages' = Append(chat_messages, m)
    /\ cmp_pc' = "ready"
    /\ cmp_ret' = None
    /\ UNCHANGED <<kind, polarity, record1, record2, used_uuids, cheat_log, driver>>
    /\ UNCHANGED condVars
    /\ UNCHANGED smpVars
    /\ UNCHANGED obVars
    /\ UNCHANGED suVars
    /\ UNCHANGED <<tdVars, epVars, exVars>>

\* a validate that consumes the entries it has read
transcript_after_validate_consumed(msgs) == <<>>

\* the transcript as validate leaves it: the for loop reads each entry into
\* the local message_text and assigns nothing to the list or its entries
transcript_after_validate(msgs) == msgs

\* validate is called on the transcript as it stands, for the first time or
\* again; cmp_pc = "validated" while cmp_ret holds what the last call returned.
\* validate assigns locals only, no attribute of self
CompareValidate ==
    /\ cmp_pc \in {"ready", "validated"}
    /\ cmp_ret' = validate(kind, polarity, record1, record2, chat_messages)
    /\ chat_messages' = transcript_after_validate(chat_messages)
    /\ cmp_pc' = "validated"
    /\ UNCHANGED <<kind, polarity, record1, record2, used_uuids, cheat_log, driver>>
    /\ UNCHANGED condVars
    /\ UNCHANGED smpVars
    /\ UNCHANGED obVars
    /\ UNCHANGED suVars
    /\ UNCHANGED <<tdVars, epVars, exVars>>

NextCompare ==
    \/ CompareSetupGoal
    \/ AppendMessage
    \/ CompareValidate

SpecCompare == InitCompare /\ [][NextCompare]_vars


-----------------------------------------------------------------------------
(* Claims about the comparison validators *)

correct_record == get_selected(kind, polarity, record1, record2)

\* the text occurs, case-sensitively, inside some entry of the transcript
Occurs(text) ==
    \E i \in 1..Len(chat_messages) : Contains(message_text(chat_messages[i]), text)

C2_IdentifierOnlyIsPartial ==
    ( /\ cmp_pc = "validated"
      /\ chat_messages = <<Dict("assistant", correct_record.number \o Exists)>> )
        => (cmp_ret.reward = 5 /\ ~cmp_ret.done)

-----------------------------------------------------------------------------
(* The conditional tasks: the condition tables of conditional.py *)

CondClasses == {"OnBoardUserConditionalTask", "EditHardwareConditionalTask",
                "EditProblemConditionalTask", "EditIncidentConditionalTask",
                "EditChangeRequestScheduleConditionalTask"}

\* the task classes conditional.py imports (lines 6-18); the other names its
\* classes use (EditProblemTask, EditIncidentTask, EditChangeRequestScheduleTask
\* and the matching Filter*ListTask) are bound nowhere in the module
ImportedNames == {"AllMenuTask", "CreateUserTask", "EditHardwareAssetTask",
                  "FilterHardwareListTask", "OrderAppleMacBookPro15Task",
                  "OrderDevelopmentLaptopPCTask", "OrderStandardLaptopTask",
                  "OrderSalesLaptopTask"}

\* the class whose all_configs() the __init__ of each task reads
PoolClass(c) ==
    CASE c = "OnBoardUserConditionalTask" -> "CreateUserTask"
      [] c = "EditHardwareConditionalTask" -> "EditHardwareAssetTask"
      [] c = "EditProblemConditionalTask" -> "EditProblemTask"
      [] c = "EditIncidentConditionalTask" -> "EditIncidentTask"
      [] c = "EditChangeRequestScheduleConditionalTask" -> "EditChangeRequestScheduleTask"

\* _DEPARTMENT_TO_LAPTOP_TASK, _MODEL_CATEGORY_TO_CONFIG, _IMPACT_TO_CONFIG,
\* _PRIORITY_TO_CONFIG, _RISK_TO_CONFIG: the items of each dict, in order
CategoryItems(c) ==
    CASE c = "OnBoardUserConditionalTask" ->
            << <<"Sales", "OrderSalesLaptopTask">>,
               <<"IT", "OrderDevelopmentLaptopPCTask">>,
               <<"Finance", "OrderAppleMacBookPro15Task">> >>
      [] c = "EditHardwareConditionalTask" ->
            << <<"Laptop", [assigned_to |-> "", asset_function |-> "Primary"]>>,
               <<"Desktop", [assigned_to |-> "", asset_function |-> "Secondary"]>>,
               <<"Mobile Phone", [assigned_to |-> "", asset_function |-> "Shared"]>> >>
      [] c = "EditProblemConditionalTask" ->
            << <<"1 - High", [assigned_to |-> "", priority |-> "1 - Critical"]>>,
               <<"2 - Medium", [assigned_to |-> "", priority |-> "2 - High"]>>,
               <<"3 - Low", [assigned_to |-> "", priority |-> "3 - Medium"]>> >>
      [] c = "EditIncidentConditionalTask" ->
            << <<"1 - Critical", [assigned_to |-> "", state |-> "2 - In Progress"]>>,
               <<"2 - High", [assigned_to |-> "", state |-> "1 - New"]>>,
               <<"3 - Medium", [assigned_to |-> "", state |-> "1 - New"]>>,
               <<"4 - Low", [assigned_to |-> "", state |-> "1 - New"]>> >>
      [] c = "EditChangeRequestScheduleConditionalTask" ->
            << <<"1 - High", [start_date |-> "2024-03-20", end_date |-> "2024-03-23"]>>,
               <<"2 - Medium", [start_date |-> "2024-03-20", end_date |-> "2024-03-22"]>>,
               <<"3 - Low", [start_date |-> "2024-03-20", end_date |-> "2024-03-21"]>> >>

\* _DEFAULT_LAPTOP_TASK and the _DEFAULT_CONFIG of each Edit* class
DefaultConfig(c) ==
    CASE c = "OnBoardUserConditionalTask" -> "OrderStandardLaptopTask"
      [] c = "EditHardwareConditionalTask" -> [assigned_to |-> "", asset_function |-> "Primary"]
      [] c = "EditProblemConditionalTask" -> [assigned_to |-> "", priority |-> "4 - Low"]
      [] c = "EditIncidentConditionalTask" -> [assigned_to |-> "", state |-> "1 - New"]
      [] c = "EditChangeRequestScheduleConditionalTask" ->
            [start_date |-> "2024-03-20", end_date |-> "2024-03-21"]

\* dict.get(key, default) on the items of a dict
DictGet(items, key, default) ==
    IF \E i \in 1..Len(items) : items[i][1] = key
    THEN items[CHOOSE i \in 1..Len(items) : items[i][1] = key][2]
    ELSE default

\* [x for x in items if x[0] != key]
RECURSIVE ItemsExcept(_, _)
ItemsExcept(items, key) ==
    IF items = <<>> THEN <<>>
    ELSE IF Head(items)[1] # key
         THEN <<Head(items)>> \o ItemsExcept(Tail(items), key)
         ELSE ItemsExcept(Tail(items), key)

\* the values self.random.randint(low, high) can return: self.random is the
\* numpy RandomState of the task (it is also called as choice(<int>)), whose
\* randint excludes high
randint(low, high) == low..(high - 1)

\* the values self.random.choice(n) can return for an int n
choice(n) == 0..(n - 1)

\* OnBoardUserConditionalTask._get_target_and_candidate_tasks: the target, and
\* the (department, task) pairs a draw can make the candidate
onboard_candidates(department) ==
    ItemsExcept(CategoryItems("OnBoardUserConditionalTask")
                    \o << <<"default", DefaultConfig("OnBoardUserConditionalTask")>> >>,
                department)

\* Edit*ConditionalTask._get_target_and_candidate_configs: candidate_configs
edit_candidates(c, value) ==
    LET others == ItemsExcept(CategoryItems(c), value)
    IN  IF \E i \in 1..Len(CategoryItems(c)) : CategoryItems(c)[i][1] = value
        THEN others
        ELSE others \o << <<"default", DefaultConfig(c)>> >>

get_target(c, value) == DictGet(CategoryItems(c), value, DefaultConfig(c))

\* the indices the draw of the candidate can give: choice(len(...)) in
\* OnBoardUser, randint(0, len(...) - 1) in the Edit* classes
candidate_draws(c, value) ==
    IF c = "OnBoardUserConditionalTask"
    THEN choice(Len(onboard_candidates(value)))
    ELSE randint(0, Len(edit_candidates(c, value)) - 1)

\* the candidate taken from the dict's items with the controlling value's own
\* item left in
get_candidate_unfiltered(c, value, i) == CategoryItems(c)[i + 1]

\* the candidate (category, config) pair of index i (0-based, as drawn)
get_candidate(c, value, i) ==
    IF c = "OnBoardUserConditionalTask"
    THEN onboard_candidates(value)[i + 1]
    ELSE edit_candidates(c, value)[i + 1]

-----------------------------------------------------------------------------
(* The subtasks a conditional composite task is made of *)

TRUE_BRANCH == "true_branch_task"
FALSE_BRANCH == "false_branch_task"

AllMenuTask(module) ==
    [cls |-> "AllMenuTask", fixed_config |-> module,
     is_validated |-> FALSE, used_in_level_2 |-> TRUE]

FilterListTask(cls, assigned_to) ==
    [cls |-> cls, fixed_config |-> assigned_to,
     is_validated |-> FALSE, used_in_level_2 |-> TRUE]

CreateUserTask(user_config) ==
    [cls |-> "CreateUserTask", fixed_config |-> user_config,
     is_validated |-> TRUE, used_in_level_2 |-> TRUE]

OrderTask(cls, fixed_config) ==
    [cls |-> cls, fixed_config |-> fixed_config,
     is_validated |-> TRUE, used_in_level_2 |-> TRUE]

EditTask(cls, record_sys_id, new_values) ==
    [cls |-> cls, record_sys_id |-> record_sys_id, new_values |-> new_values,
     is_validated |-> TRUE, used_in_level_2 |-> TRUE]

\* ConditionalTask.__init__
ConditionalTask(true_branch_task, true_branch_prefix, false_branch_task, false_branch_prefix) ==
    [cls |-> "ConditionalTask",
     true_branch_task |-> true_branch_task,
     true_branch_prefix |-> true_branch_prefix,
     false_branch_task |-> false_branch_task,
     false_branch_prefix |-> false_branch_prefix,
     is_validated |-> FALSE,
     used_in_level_2 |-> TRUE]

IsEditTask(t) == "new_values" \in DOMAIN t
IsOrderTask(t) == t.cls \in {"OrderSalesLaptopTask", "OrderDevelopmentLaptopPCTask",
                             "OrderAppleMacBookPro15Task", "OrderStandardLaptopTask"}

\* the fields an Edit* class writes, in the order of its config dicts
EditFields(new_values) ==
    IF "asset_function" \in DOMAIN new_values THEN <<"assigned_to", "asset_function">>
    ELSE IF "priority" \in DOMAIN new_values THEN <<"assigned_to", "priority">>
    ELSE IF "state" \in DOMAIN new_values THEN <<"assigned_to", "state">>
    ELSE <<"start_date", "end_date">>

\* the goal text a branch task's setup returns: it names what the task asks for
SubtaskGoal(t) ==
    IF IsEditTask(t)
    THEN LET f == EditFields(t.new_values)
         IN  <<"Set ", f[1], " to '", t.new_values[f[1]], "', ",
               f[2], " to '", t.new_values[f[2]], "'.">>
    ELSE <<t.cls, " with ", t.fixed_config.configuration, ".">>

\* the users an assigned_to value names: nobody for the empty string
Assignees(assigned_to) == IF assigned_to = "" THEN {} ELSE {assigned_to}

\* what carrying out a subtask does to the record store
subtask_cheat(t, e) ==
    IF IsEditTask(t)
    THEN [e EXCEPT !.record =
            [f \in DOMAIN e.record |->
                IF f \in DOMAIN t.new_values THEN t.new_values[f] ELSE e.record[f]]]
    ELSE IF IsOrderTask(t)
    THEN [e EXCEPT !.orders = @ \cup {[item |-> t.cls, fixed_config |-> t.fixed_config]}]
    ELSE IF t.cls = "CreateUserTask"
    THEN [e EXCEPT !.users = @ \cup {t.fixed_config}]
    ELSE IF t.cls = "DeleteUserTask"
    THEN [e EXCEPT !.users = @ \ {t.record_sys_id}]
    ELSE IF t.cls = "EditHardwareAssetTask"
    THEN [e EXCEPT !.assigned_to = Assignees(t.fixed_config.assigned_to)]
    ELSE IF t.cls = "AllMenuTask" /\ "page" \in DOMAIN e
    THEN [e EXCEPT !.page = t.fixed_config]
    ELSE IF t.cls = "FilterHardwareListTask" /\ "filter" \in DOMAIN e
    THEN [e EXCEPT !.filter = t.fixed_config.filter_values]
    ELSE e

\* whether the record store shows the subtask done
subtask_done(t, e) ==
    IF IsEditTask(t)
    THEN \A f \in DOMAIN t.new_values : e.record[f] = t.new_values[f]
    ELSE IF IsOrderTask(t)
    THEN [item |-> t.cls, fixed_config |-> t.fixed_config] \in e.orders
    ELSE IF t.cls = "CreateUserTask"
    THEN t.fixed_config \in e.users
    ELSE IF t.cls = "DeleteUserTask"
    THEN t.record_sys_id \notin e.users
    ELSE IF t.cls = "EditHardwareAssetTask"
    THEN e.assigned_to = Assignees(t.fixed_config.assigned_to)
    ELSE IF t.cls = "AllMenuTask" /\ "page" \in DOMAIN e
    THEN e.page = t.fixed_config
    ELSE IF t.cls = "FilterHardwareListTask" /\ "filter" \in DOMAIN e
    THEN e.filter = t.fixed_config.filter_values
    ELSE TRUE

subtask_validate(t, e) ==
    IF subtask_done(t, e)
    THEN Result(10, TRUE, "Nice work, thank you!")
    ELSE Result(0, FALSE, "The task is not done.")

\* " ".join(parts) on text kept as fragments
RECURSIVE Join(_, _)
Join(parts, sep) ==
    IF parts = <<>> THEN <<>>
    ELSE IF Len(parts) = 1 THEN Head(parts)
    ELSE Head(parts) \o sep \o Join(Tail(parts), sep)

-----------------------------------------------------------------------------
(* ConditionalTask *)

\* setup with the goal fragments joined in the wrong order
ConditionalTask_setup_false_first(ct, log, outcome) ==
    [raised |-> outcome # "ok",
     calls |-> log \o << <<FALSE_BRANCH, "setup">>, <<TRUE_BRANCH, "setup">> >>,
     set_up |-> {TRUE_BRANCH, FALSE_BRANCH},
     goal |-> Join(<<ct.false_branch_prefix \o SubtaskGoal(ct.false_branch_task),
                     ct.true_branch_prefix \o SubtaskGoal(ct.true_branch_task)>>, <<" ">>),
     info |-> <<>>]

\* ConditionalTask.setup; outcome says whether a branch's setup raises, which
\* ends the call there
ConditionalTask_setup(ct, log, outcome) ==
    LET log1 == Append(log, <<TRUE_BRANCH, "setup">>)
        log2 == Append(log1, <<FALSE_BRANCH, "setup">>)
        true_branch_goal == ct.true_branch_prefix \o SubtaskGoal(ct.true_branch_task)
        false_branch_goal == ct.false_branch_prefix \o SubtaskGoal(ct.false_branch_task)
    IN  IF outcome = "true_raises"
        THEN [raised |-> TRUE, calls |-> log1, set_up |-> {},
              goal |-> <<>>, info |-> <<>>]
        ELSE IF outcome = "false_raises"
        THEN [raised |-> TRUE, calls |-> log2, set_up |-> {TRUE_BRANCH},
              goal |-> <<>>, info |-> <<>>]
        ELSE [raised |-> FALSE, calls |-> log2, set_up |-> {TRUE_BRANCH, FALSE_BRANCH},
              goal |-> Join(<<true_branch_goal, false_branch_goal>>, <<" ">>),
              info |-> <<>>]

\* ConditionalTask.teardown; raises_true / raises_false say whether the
\* branch's own teardown raises, which ends the call there
ConditionalTask_teardown(ct, log, raises_true, raises_false) ==
    LET log1 == Append(log, <<TRUE_BRANCH, "teardown">>)
        log2 == Append(log1, <<FALSE_BRANCH, "teardown">>)
    IN  IF raises_true THEN [raised |-> TRUE, calls |-> log1]
        ELSE IF raises_false THEN [raised |-> TRUE, calls |-> log2]
        ELSE [raised |-> FALSE, calls |-> log2]

\* validate delegated to the other branch
ConditionalTask_validate_false_branch(ct, e, log) ==
    [ret |-> subtask_validate(ct.false_branch_task, e),
     calls |-> Append(log, <<FALSE_BRANCH, "validate">>)]

\* ConditionalTask.validate
ConditionalTask_validate(ct, e, log) ==
    [ret |-> subtask_validate(ct.true_branch_task, e),
     calls |-> Append(log, <<TRUE_BRANCH, "validate">>)]

\* ConditionalTask.cheat
ConditionalTask_cheat(ct, e, log) ==
    [env |-> subtask_cheat(ct.true_branch_task, e),
     calls |-> Append(log, <<TRUE_BRANCH, "cheat">>)]

-----------------------------------------------------------------------------
(* The conditional composite tasks *)

\* the text each _get_config puts before the condition value of a prefix
PrefixText(c) ==
    CASE c = "OnBoardUserConditionalTask" -> "If the user department is "
      [] c = "EditHardwareConditionalTask" -> "If the hardware model category is "
      [] c = "EditProblemConditionalTask" -> "If the problem impact is "
      [] c = "EditIncidentConditionalTask" -> "If the incident priority is "
      [] c = "EditChangeRequestScheduleConditionalTask" -> "If the change request risk is "

branch_prefix(c, value) == <<PrefixText(c), value, ", ">>

\* the controlling value of each configuration all_configs() returns, in order
\* (department, model_category, impact, priority, risk of the template record)
ControlPool(c) ==
    CASE c = "OnBoardUserConditionalTask" -> <<"Sales", "IT", "HR">>
      [] c = "EditHardwareConditionalTask" -> <<"Laptop", "Desktop", "Computer", "Mobile Phone">>
      [] c = "EditProblemConditionalTask" -> <<"1 - High", "2 - Medium", "3 - Low">>
      [] c = "EditIncidentConditionalTask" -> <<"1 - Critical", "2 - High", "5 - Planning", "4 - Low">>
      [] c = "EditChangeRequestScheduleConditionalTask" -> <<"1 - High", "4 - Very Low", "3 - Low">>

\* the indices the draw of the base configuration can give:
\* self.random.choice(self.all_user_configs) in OnBoardUser,
\* self.random.randint(0, len(self.all_*_configs) - 1) in the Edit* classes
pool_draws(c) ==
    IF c = "OnBoardUserConditionalTask"
    THEN choice(Len(ControlPool(c)))
    ELSE randint(0, Len(ControlPool(c)) - 1)

\* the quantity-1 configurations of an Order* task's config file
OrderConfigs == << [quantity |-> 1, configuration |-> "configuration A"],
                   [quantity |-> 1, configuration |-> "configuration B"] >>

EditClass(c) ==
    CASE c = "EditHardwareConditionalTask" -> "EditHardwareAssetTask"
      [] c = "EditProblemConditionalTask" -> "EditProblemTask"
      [] c = "EditIncidentConditionalTask" -> "EditIncidentTask"
      [] c = "EditChangeRequestScheduleConditionalTask" -> "EditChangeRequestScheduleTask"

FilterClass(c) ==
    CASE c = "EditHardwareConditionalTask" -> "FilterHardwareListTask"
      [] c = "EditProblemConditionalTask" -> "FilterProblemListTask"
      [] c = "EditIncidentConditionalTask" -> "FilterIncidentListTask"
      [] c = "EditChangeRequestScheduleConditionalTask" -> "FilterChangeRequestListTask"

\* the record the template of an Edit* task points at, before any edit
InitialRecord(c) ==
    CASE c = "OnBoardUserConditionalTask" -> <<>>
      [] c = "EditHardwareConditionalTask" -> [assigned_to |-> "user-1", asset_function |-> ""]
      [] c = "EditProblemConditionalTask" -> [assigned_to |-> "user-1", priority |-> "5 - Planning"]
      [] c = "EditIncidentConditionalTask" -> [assigned_to |-> "user-1", state |-> "3 - On Hold"]
      [] c = "EditChangeRequestScheduleConditionalTask" -> [start_date |-> "", end_date |-> ""]

InitialEnv(c) == [record |-> InitialRecord(c), orders |-> {}, users |-> {}]

\* _get_config: value is the controlling value of the sampled configuration,
\* i the drawn candidate index, target_config / candidate_config the order
\* configurations drawn in OnBoardUser
get_config(c, value, i, target_config, candidate_config) ==
    LET target == get_target(c, value)
        candidate == get_candidate(c, value, i)
    IN  IF c = "OnBoardUserConditionalTask"
        THEN << AllMenuTask("Users and Groups > Users"),
                CreateUserTask([department |-> value]),
                AllMenuTask("Service Catalog"),
                ConditionalTask(OrderTask(target, target_config),
                                branch_prefix(c, value),
                                OrderTask(candidate[2], candidate_config),
                                branch_prefix(c, candidate[1])) >>
        ELSE << AllMenuTask("Open"),
                FilterListTask(FilterClass(c), "user-1"),
                ConditionalTask(EditTask(EditClass(c), "sys-1", target),
                                branch_prefix(c, value),
                                EditTask(EditClass(c), "sys-1", candidate[2]),
                                branch_prefix(c, candidate[1])) >>

\* the validate of an element of the sequence
element_validate(t, e) ==
    IF t.cls = "ConditionalTask"
    THEN ConditionalTask_validate(t, e, <<>>).ret
    ELSE subtask_validate(t, e)

\* the composite-level validate: the elements with is_validated=True are
\* validated in order against the final state; the first failure is returned,
\* and success when there is none
RECURSIVE composite_validate(_, _)
composite_validate(seq, e) ==
    IF seq = <<>> THEN Result(10, TRUE, "Nice work, thank you!")
    ELSE IF Head(seq).is_validated /\ ~element_validate(Head(seq), e).done
         THEN element_validate(Head(seq), e)
         ELSE composite_validate(Tail(seq), e)

-----------------------------------------------------------------------------
(* The conditional episode *)

conditional == subtasks[Len(subtasks)]

NoComparison ==
    /\ kind = None
    /\ polarity = None
    /\ record1 = None
    /\ record2 = None
    /\ used_uuids = {}
    /\ chat_messages = <<>>
    /\ cmp_pc = None
    /\ cmp_ret = None
    /\ cheat_log = <<>>
    /\ driver = None

InitCond ==
    /\ NoTeardown
    /\ NoEpisodes
    /\ NoExpense
    /\ NoSetup
    /\ NoComparison
    /\ NoSample
    /\ NoOffboard
    /\ cond_class \in CondClasses
    /\ subtasks = <<>>
    /\ env = None
    /\ calls = <<>>
    /\ set_up = {}
    /\ solved = <<>>
    /\ cond_pc = "new"
    /\ cond_ret = None

\* __init__: after super().__init__ it reads <PoolClass>.all_configs(), a
\* NameError when the module binds no such name
CondConstruct ==
    /\ cond_pc = "new"
    /\ cond_pc' = IF PoolClass(cond_class) \in ImportedNames
                  THEN "constructed" ELSE "name_error"
    /\ UNCHANGED <<cond_class, subtasks, env, calls, set_up, solved, cond_ret>>
    /\ UNCHANGED cmpVars
    /\ UNCHANGED smpVars
    /\ UNCHANGED obVars
    /\ UNCHANGED suVars
    /\ UNCHANGED <<tdVars, epVars, exVars>>

\* the positions in which the driver may act on the task
Running == {"ready", "acted", "cheated", "validated", "composite_validated"}

NumDriverCalls == Cardinality({i \in 1..Len(calls) : calls[i][2] \in {"cheat", "validate"}})

\* setup_goal with no fixed_config: _get_config builds the sequence, then
\* setup is called on its elements in order. outcome "element_raises" is a
\* failure in the setup of an element before the ConditionalTask.
CondSetupGoal ==
    /\ cond_pc = "constructed"
    /\ \E p \in pool_draws(cond_class) :
       \E i \in candidate_draws(cond_class, ControlPool(cond_class)[p + 1]) :
       \E tc \in 1..Len(OrderConfigs), cc \in 1..Len(OrderConfigs) :
       \E outcome \in {"ok", "element_raises", "true_raises", "false_raises"} :
          LET config == get_config(cond_class, ControlPool(cond_class)[p + 1], i,
                                   OrderConfigs[tc], OrderConfigs[cc])
              r == ConditionalTask_setup(config[Len(config)], calls, outcome)
          IN  /\ cond_class # "OnBoardUserConditionalTask" => (tc = 1 /\ cc = 1)
              /\ subtasks' = config
              /\ env' = InitialEnv(cond_class)
              /\ IF outcome = "element_raises"
                 THEN /\ cond_pc' = "setup_raised"
                      /\ UNCHANGED <<calls, set_up, cond_ret>>
                 ELSE /\ calls' = r.calls
                      /\ set_up' = r.set_up
                      /\ cond_pc' = IF r.raised THEN "setup_raised" ELSE "ready"
                      /\ cond_ret' = IF r.raised THEN None
                                     ELSE [goal |-> r.goal, info |-> r.info]
    /\ UNCHANGED <<cond_class, solved>>
    /\ UNCHANGED cmpVars
    /\ UNCHANGED smpVars
    /\ UNCHANGED obVars
    /\ UNCHANGED suVars
    /\ UNCHANGED <<tdVars, epVars, exVars>>

\* the agent carries out the actions one branch asks for
AgentSolve ==
    /\ cond_pc \in Running
    /\ Len(solved) < MaxSolves
    /\ \E b \in {TRUE_BRANCH, FALSE_BRANCH} :
          /\ env' = subtask_cheat(conditional[b], env)
          /\ solved' = Append(solved, b)
    /\ cond_pc' = "acted"
    /\ cond_ret' = None
    /\ UNCHANGED <<cond_class, subtasks, calls, set_up>>
    /\ UNCHANGED cmpVars
    /\ UNCHANGED smpVars
    /\ UNCHANGED obVars
    /\ UNCHANGED suVars
    /\ UNCHANGED <<tdVars, epVars, exVars>>

\* the agent creates the user OnBoardUser asks for
AgentCreateUser ==
    /\ cond_pc \in Running
    /\ cond_class = "OnBoardUserConditionalTask"
    /\ ~subtask_done(subtasks[2], env)
    /\ env' = subtask_cheat(subtasks[2], env)
    /\ cond_pc' = "acted"
    /\ cond_ret' = None
    /\ UNCHANGED <<cond_class, subtasks, calls, set_up, solved>>
    /\ UNCHANGED cmpVars
    /\ UNCHANGED smpVars
    /\ UNCHANGED obVars
    /\ UNCHANGED suVars
    /\ UNCHANGED <<tdVars, epVars, exVars>>

\* ConditionalTask.cheat is called
CondCheat ==
    /\ cond_pc \in Running
    /\ NumDriverCalls < MaxCalls
    /\ Len(solved) < MaxSolves
    /\ LET r == ConditionalTask_cheat(conditional, env, calls)
       IN  /\ env' = r.env
           /\ calls' = r.calls
           /\ solved' = Append(solved, r.calls[Len(r.calls)][1])
    /\ cond_pc' = "cheated"
    /\ cond_ret' = None
    /\ UNCHANGED <<cond_class, subtasks, set_up>>
    /\ UNCHANGED cmpVars
    /\ UNCHANGED smpVars
    /\ UNCHANGED obVars
    /\ UNCHANGED suVars
    /\ UNCHANGED <<tdVars, epVars, exVars>>

\* ConditionalTask.validate is called
CondValidate ==
    /\ cond_pc \in Running
    /\ NumDriverCalls < MaxCalls
    /\ LET r == ConditionalTask_validate(conditional, env, calls)
       IN  /\ cond_ret' = r.ret
           /\ calls' = r.calls
    /\ cond_pc' = "validated"
    /\ UNCHANGED <<cond_class, subtasks, env, set_up, solved>>
    /\ UNCHANGED cmpVars
    /\ UNCHANGED smpVars
    /\ UNCHANGED obVars
    /\ UNCHANGED suVars
    /\ UNCHANGED <<tdVars, epVars, exVars>>

\* the composite task's validate is called
CompositeValidate ==
    /\ cond_pc \in Running
    /\ cond_pc # "composite_validated"
    /\ cond_ret' = composite_validate(subtasks, env)
    /\ cond_pc' = "composite_validated"
    /\ UNCHANGED <<cond_class, subtasks, env, calls, set_up, solved>>
    /\ UNCHANGED cmpVars
    /\ UNCHANGED smpVars
    /\ UNCHANGED obVars
    /\ UNCHANGED suVars
    /\ UNCHANGED <<tdVars, epVars, exVars>>

\* ConditionalTask.teardown is called, at the end of the episode or after a
\* failed setup. The teardown of a branch that was set up returns; whether the
\* teardown of a branch that was never set up returns or raises is the branch
\* task's own affair.
CondTeardown ==
    /\ cond_pc \in Running \cup {"setup_raised"}
    /\ \E raises_true \in BOOLEAN, raises_false \in BOOLEAN :
          /\ TRUE_BRANCH \in set_up => ~raises_true
          /\ FALSE_BRANCH \in set_up => ~raises_false
          /\ LET r == ConditionalTask_teardown(conditional, calls, raises_true, raises_false)
             IN  /\ calls' = r.calls
                 /\ cond_pc' = IF r.raised THEN "teardown_raised" ELSE "torn_down"
    /\ cond_ret' = None
    /\ UNCHANGED <<cond_class, subtasks, env, set_up, solved>>
    /\ UNCHANGED cmpVars
    /\ UNCHANGED smpVars
    /\ UNCHANGED obVars
    /\ UNCHANGED suVars
    /\ UNCHANGED <<tdVars, epVars, exVars>>

NextCond ==
    \/ CondConstruct
    \/ CondSetupGoal
    \/ AgentSolve
    \/ AgentCreateUser
    \/ CondCheat
    \/ CondValidate
    \/ CompositeValidate
    \/ CondTeardown

SpecCond == InitCond /\ [][NextCond]_vars


-----------------------------------------------------------------------------
(* Claims about ConditionalTask and the conditional composite tasks *)

IsSetupCall(c) == c[2] = "setup"
IsTeardownCall(c) == c[2] = "teardown"

\* C3: cheat and validate of a ConditionalTask are delegated to the true branch
\* only: the false branch's cheat and validate are never called, and validate
\* returns what the true branch's validate returns on the same state.
C3_TrueBranchOnly ==
    /\ \A i \in 1..Len(calls) :
          calls[i][2] \in {"cheat", "validate"} => calls[i][1] = TRUE_BRANCH
    /\ cond_pc = "validated" =>
          cond_ret = subtask_validate(conditional.true_branch_task, env)

\* validate was called where the two branches' own validates disagree
C3_Witness ==
    /\ cond_pc = "validated"
    /\ subtask_done(conditional.false_branch_task, env)
    /\ ~subtask_done(conditional.true_branch_task, env)
    /\ ~cond_ret.done
    /\ calls[Len(calls)] = <<TRUE_BRANCH, "validate">>

\* C4: when only the false branch's actions were carried out, validate never
\* reports success.
C4_FalseBranchOnlyNeverSucceeds ==
    ( /\ cond_pc = "validated"
      /\ solved # <<>>
      /\ \A i \in 1..Len(solved) : solved[i] = FALSE_BRANCH )
        => ~(cond_ret.done /\ cond_ret.reward = 10)

\* C5: validate after solving both branches, in either order, returns what it
\* returns after solving the true branch alone.
C5_TrueOnlyEqualsBoth ==
    ( /\ cond_pc = "validated"
      /\ solved \in { <<TRUE_BRANCH, FALSE_BRANCH>>, <<FALSE_BRANCH, TRUE_BRANCH>> } )
        => cond_ret = subtask_validate(
                        conditional.true_branch_task,
                        subtask_cheat(conditional.true_branch_task, InitialEnv(cond_class)))

\* C6: in a composite sequence holding a ConditionalTask, the true branch is
\* graded: while it is unsolved the composite-level validate does not report
\* success.
C6_TrueBranchGraded ==
    ( /\ cond_pc = "composite_validated"
      /\ ~subtask_done(conditional.true_branch_task, env) )
        => ~(cond_ret.done /\ cond_ret.reward = 10)

\* C7: ConditionalTask.setup sets up the true branch, then the false branch,
\* once each, and returns true_prefix + true_goal + " " + false_prefix +
\* false_goal with an empty info.
C7_SetupGoal ==
    /\ cond_pc = "ready" =>
          /\ cond_ret.goal = conditional.true_branch_prefix
                                \o SubtaskGoal(conditional.true_branch_task)
                                \o <<" ">>
                                \o conditional.false_branch_prefix
                                \o SubtaskGoal(conditional.false_branch_task)
          /\ cond_ret.info = <<>>
    /\ cond_pc \in Running =>
          SelectSeq(calls, IsSetupCall)
              = << <<TRUE_BRANCH, "setup">>, <<FALSE_BRANCH, "setup">> >>

\* setup has just returned a goal whose two fragments differ
C7_Witness ==
    /\ cond_pc = "ready"
    /\ set_up = {TRUE_BRANCH, FALSE_BRANCH}
    /\ conditional.true_branch_prefix # conditional.false_branch_prefix
    /\ SubtaskGoal(conditional.true_branch_task) # SubtaskGoal(conditional.false_branch_task)
    /\ Len(cond_ret.goal) > 0

\* C8: teardown tears down the true branch, then the false branch, and does
\* not raise, whatever the lifecycle state it is called in.
C8_TeardownBothNoRaise ==
    cond_pc \in {"torn_down", "teardown_raised"} =>
        /\ cond_pc = "torn_down"
        /\ SelectSeq(calls, IsTeardownCall)
              = << <<TRUE_BRANCH, "teardown">>, <<FALSE_BRANCH, "teardown">> >>


-----------------------------------------------------------------------------
(* Sources of generated values *)

\* the seeds tasks are constructed with
Seeds == 0..2

\* values id(self) can take: the address of the task object, fixed for the
\* object's lifetime and different from one object to the next
ObjectIds == {140737001, 140737002}

\* self.random is a generator seeded with the task's seed: the values it yields
\* are a function of the seed and of how many values were drawn before. The
\* generator is kept as a full-period linear congruential generator.
lcg(x) == (5 * x + 3) % 16

\* the k-th raw value of the generator seeded with seed (k >= 1)
RECURSIVE raw_draw(_, _)
raw_draw(seed, k) == IF k = 0 THEN seed % 16 ELSE lcg(raw_draw(seed, k - 1))

\* self.random.choice(n) as the k-th draw: an index in 0..n-1
seeded_choice(seed, k, n) == raw_draw(seed, k) % n

\* self.random.randint(low, high) as the k-th draw: low <= value < high
seeded_randint(seed, k, low, high) == low + (raw_draw(seed, k) % (high - low))

\* fake = Faker() is constructed at import with no seed: what its methods
\* return does not depend on the task's seed
fake_first_name == {"Ann", "Bob"}
fake_last_name == {"Kim"}
fake_word == {"alpha", "beta"}

\* str.capitalize()
capitalize(w) == CASE w = "alpha" -> "Alpha" [] w = "beta" -> "Beta"

\* one iteration's Faker draws: two first names and two last names, or two words
NameDraws == fake_first_name \X fake_first_name \X fake_last_name \X fake_last_name
WordDraws == fake_word \X fake_word

\* a subtask object as the composite tasks construct it
Task(cls, fixed_config, record_sys_id, is_validated) ==
    [cls |-> cls, fixed_config |-> fixed_config, record_sys_id |-> record_sys_id,
     is_validated |-> is_validated, used_in_level_2 |-> TRUE]

RECURSIVE Flatten(_)
Flatten(seqs) == IF seqs = <<>> THEN <<>> ELSE Head(seqs) \o Flatten(Tail(seqs))

-----------------------------------------------------------------------------
(* The repetition tasks of loop.py *)

LoopClasses ==
    << "OrderMultipleDevicesTask", "CreateMultipleUserTask", "DeleteMultipleUserTask",
       "OffBoardMultipleUserTask", "CreateMultipleChangeRequestTask",
       "CreateMultipleIncidentTask", "CreateMultipleHardwareAssetTask",
       "CreateMultipleProblemTask", "CreateMultipleItemRequestTask" >>

UserLoopClasses ==
    {"CreateMultipleUserTask", "DeleteMultipleUserTask", "OffBoardMultipleUserTask"}

WordLoopClasses ==
    {"CreateMultipleChangeRequestTask", "CreateMultipleIncidentTask",
     "CreateMultipleHardwareAssetTask", "CreateMultipleProblemTask",
     "CreateMultipleItemRequestTask"}

\* num_devices / num_users / num_requests / num_incidents / num_assets /
\* num_problems: the default of every constructor
num_items(c) == 3

\* self.device_types when none is given: the keys of device_type_to_task
device_types ==
    << "standard_laptop", "developer_laptop", "sales_laptop", "development_laptop_pc",
       "ipad_mini", "ipad_pro", "apple_watch", "apple_macbook_pro15", "loaner_laptop" >>

device_type_to_task(d) ==
    CASE d = "standard_laptop" -> "OrderStandardLaptopTask"
      [] d = "developer_laptop" -> "OrderDeveloperLaptopTask"
      [] d = "sales_laptop" -> "OrderSalesLaptopTask"
      [] d = "development_laptop_pc" -> "OrderDevelopmentLaptopPCTask"
      [] d = "ipad_mini" -> "OrderIpadMiniTask"
      [] d = "ipad_pro" -> "OrderIpadProTask"
      [] d = "apple_watch" -> "OrderAppleWatchTask"
      [] d = "apple_macbook_pro15" -> "OrderAppleMacBookPro15Task"
      [] d = "loaner_laptop" -> "OrderLoanerLaptopTask"

\* device[1] where device is one of the device type strings: its second character
device_index_1(d) ==
    CASE d \in {"standard_laptop"} -> "t"
      [] d \in {"developer_laptop", "development_laptop_pc"} -> "e"
      [] d \in {"sales_laptop"} -> "a"
      [] d \in {"ipad_mini", "ipad_pro", "apple_watch", "apple_macbook_pro15"} -> "p"
      [] d \in {"loaner_laptop"} -> "o"

\* the text a class puts before the names in its task description, and the
\* fragment its short descriptions and names start with
DescriptionHead(c) ==
    CASE c = "OrderMultipleDevicesTask" -> "order the following devices: "
      [] c = "CreateMultipleUserTask" -> "create the following users: "
      [] c = "DeleteMultipleUserTask" -> "delete the following users: "
      [] c = "OffBoardMultipleUserTask" -> "offboard the following users: "
      [] c = "CreateMultipleChangeRequestTask" -> "create the following change requests: "
      [] c = "CreateMultipleIncidentTask" -> "create the following incidents: "
      [] c = "CreateMultipleHardwareAssetTask" -> "create the following hardware assets: "
      [] c = "CreateMultipleProblemTask" -> "create the following problems: "
      [] c = "CreateMultipleItemRequestTask" -> "create the following item requests: "

WordHead(c) ==
    CASE c = "CreateMultipleChangeRequestTask" -> "Change Request "
      [] c = "CreateMultipleIncidentTask" -> "Incident "
      [] c = "CreateMultipleHardwareAssetTask" -> "Asset "
      [] c = "CreateMultipleProblemTask" -> "Problem "
      [] c = "CreateMultipleItemRequestTask" -> "Item Request "

\* create_user(first_name, last_name): the record store creates the user and
\* returns its user name and sys_id; n is the number of users the task has
\* created before
create_user(first_name, last_name, n) ==
    [user_name |-> first_name \o <<".">> \o last_name, sys_id |-> <<"sys_user", n + 1>>]

\* create_computer_asset(asset_tag, user_sys_id): the sys_id of the new asset
create_computer_asset(asset_tag, user_sys_id, n) == <<"alm_hardware", n + 1>>


\* what one pass of the loop of setup_goal appends to the task's list; i is
\* the pass (from 1), names and words are the pass's Faker draws
loop_item(c, seed, id, i, names, words) ==
    LET first_name == <<names[1], "-", names[2]>>
        last_name == <<names[3], "-", names[4]>>
        user_full_name == first_name \o <<" ">> \o last_name
        user == create_user(first_name, last_name, i - 1)
        laptop_asset_tag == <<"P", id % (10^8)>>
    IN  CASE c = "OrderMultipleDevicesTask" ->
                [device_type |->
                    device_types[seeded_choice(seed, i, Len(device_types)) + 1]]
          [] c \in {"CreateMultipleUserTask", "DeleteMultipleUserTask"} ->
                [user_full_name |-> user_full_name,
                 user_name |-> user.user_name,
                 user_sys_id |-> user.sys_id]
          [] c = "OffBoardMultipleUserTask" ->
                [user_full_name |-> user_full_name,
                 user_name |-> user.user_name,
                 user_sys_id |-> user.sys_id,
                 laptop_asset_tag |-> laptop_asset_tag,
                 laptop_sys_id |->
                    create_computer_asset(laptop_asset_tag, user.sys_id, i - 1)]
          [] c \in WordLoopClasses ->
                [short_description |->
                    <<WordHead(c), capitalize(words[1]), " ", capitalize(words[2])>>]

\* the offboarding chain with every subtask marked is_validated
loop_chain_all_validated(c, item, seed, i) ==
    << Task("AllMenuTask", "Portfolios > Hardware Assets", None, TRUE),
       Task("FilterHardwareListTask", [filter_values |-> item.user_full_name], None, TRUE),
       Task("EditHardwareAssetTask", [assigned_to |-> ""], item.laptop_sys_id, TRUE),
       Task("AllMenuTask", "Users and Groups > Users", None, TRUE),
       Task("DeleteUserTask", [field_value |-> item.user_full_name],
            item.user_sys_id, TRUE) >>

\* the subtasks _get_config builds for one item; i is the item's position
loop_chain(c, item, seed, i) ==
    CASE c = "OrderMultipleDevicesTask" ->
            << Task("AllMenuTask", "Service Catalog", None, FALSE),
               Task(device_type_to_task(item.device_type), None, None, TRUE) >>
      [] c = "CreateMultipleUserTask" ->
            << Task("AllMenuTask", "Users and Groups > Users", None, FALSE),
               Task("CreateUserTask",
                    [field_value |-> item.user_full_name, user_name |-> item.user_name],
                    item.user_sys_id, TRUE) >>
      [] c = "DeleteMultipleUserTask" ->
            << Task("AllMenuTask", "Users and Groups > Users", None, FALSE),
               Task("DeleteUserTask", [field_value |-> item.user_full_name],
                    item.user_sys_id, TRUE) >>
      [] c = "OffBoardMultipleUserTask" ->
            << Task("AllMenuTask", "Portfolios > Hardware Assets", None, FALSE),
               Task("FilterHardwareListTask", [filter_values |-> item.user_full_name],
                    None, FALSE),
               Task("EditHardwareAssetTask", [assigned_to |-> ""],
                    item.laptop_sys_id, TRUE),
               Task("AllMenuTask", "Users and Groups > Users", None, FALSE),
               Task("DeleteUserTask", [field_value |-> item.user_full_name],
                    item.user_sys_id, TRUE) >>
      [] c = "CreateMultipleChangeRequestTask" ->
            << Task("AllMenuTask", "All", None, FALSE),
               Task("CreateChangeRequestTask",
                    [field_value |-> item.short_description], None, TRUE) >>
      [] c = "CreateMultipleIncidentTask" ->
            << Task("AllMenuTask", "Incidents", None, FALSE),
               Task("CreateIncidentTask",
                    [field_value |-> item.short_description], None, TRUE) >>
      [] c = "CreateMultipleHardwareAssetTask" ->
            << Task("AllMenuTask", "Portfolios > Hardware Assets", None, FALSE),
               Task("CreateHardwareAssetTask",
                    [field_value |-> item.short_description,
                     serial_number |->
                        <<"SN-", seeded_randint(seed, i, 1000000, 9999999)>>],
                    None, TRUE) >>
      [] c = "CreateMultipleProblemTask" ->
            << Task("AllMenuTask", "All", None, FALSE),
               Task("CreateProblemTask",
                    [field_value |-> item.short_description], None, TRUE) >>
      [] c = "CreateMultipleItemRequestTask" ->
            << Task("AllMenuTask", "Service Catalog", None, FALSE),
               Task("CreateItemRequestTask",
                    [field_value |-> item.short_description], None, TRUE) >>

\* _get_config with the chains laid out last item first
loop_get_config_reversed(c, items, seed) ==
    Flatten([i \in 1..Len(items) |->
                loop_chain(c, items[Len(items) + 1 - i], seed, Len(items) + 1 - i)])

\* _get_config of a repetition task: one chain per item, config.extend(chain)
loop_get_config(c, items, seed) ==
    Flatten([i \in 1..Len(items) |-> loop_chain(c, items[i], seed, i)])

\* the name an item is listed by in the task description:
\* device[1], user[0], req[0], inc[0], asset[0]
item_name(c, item) ==
    CASE c = "OrderMultipleDevicesTask" -> <<device_index_1(item.device_type)>>
      [] c \in UserLoopClasses -> item.user_full_name
      [] c \in WordLoopClasses -> item.short_description

\* self.task_description of a repetition task
loop_task_description(c, items) ==
    <<DescriptionHead(c)>>
        \o Join([i \in 1..Len(items) |-> <<"\"">> \o item_name(c, items[i]) \o <<"\"">>],
                <<", ">>)
        \o <<"\n">>

-----------------------------------------------------------------------------
(* Configuration sampling of CompareHardwareDate *)

\* CreateHardwareAssetTask.all_configs(), the entries with a purchase date
hardware_configs ==
    << [model |-> "Dell Latitude 5420", purchase_date |-> "2023-01-05"],
       [model |-> "Apple MacBook Pro 15", purchase_date |-> "2024-11-20"],
       [model |-> "Lenovo ThinkPad X1", purchase_date |-> "2022-06-30"] >>

\* the pool with the first draw left in it
remaining_configs_keep_all(configs, drawn) == configs

\* [c for c in hardware_configs if c != hardware1_config]
RECURSIVE remaining_configs(_, _)
remaining_configs(configs, drawn) ==
    IF configs = <<>> THEN <<>>
    ELSE IF Head(configs) # drawn
         THEN <<Head(configs)>> \o remaining_configs(Tail(configs), drawn)
         ELSE remaining_configs(Tail(configs), drawn)

\* CompareHardwareDate._get_config: two seeded draws pick the templates, two
\* uuid4() values make the serial numbers; returns the subtasks and the records
compare_hardware_get_config(seed, uuid_1, uuid_2) ==
    LET hardware1_config ==
            hardware_configs[seeded_choice(seed, 1, Len(hardware_configs)) + 1]
        remaining == remaining_configs(hardware_configs, hardware1_config)
        hardware2_config == remaining[seeded_choice(seed, 2, Len(remaining)) + 1]
        hardware1 == [serial_number |-> <<"S", "N", "-">> \o uuid_1,
                      model |-> hardware1_config.model,
                      purchase_date |-> hardware1_config.purchase_date]
        hardware2 == [serial_number |-> <<"S", "N", "-">> \o uuid_2,
                      model |-> hardware2_config.model,
                      purchase_date |-> hardware2_config.purchase_date]
    IN  [tasks |->
            << Task("AllMenuTask", "Portfolios > Hardware Assets", None, FALSE),
               Task("FilterHardwareListTask",
                    [filter_values |-> hardware1.serial_number], None, TRUE),
               Task("FilterHardwareListTask",
                    [filter_values |-> hardware2.serial_number], None, TRUE) >>,
         hardware1 |-> hardware1,
         hardware2 |-> hardware2]

\* self.task_description of CompareHardwareDate at level 2, earlier = True
compare_hardware_task_description(hardware1, hardware2) ==
    << "find the hardware asset that was purchased ", "earlier",
       " between the following two assets:\n",
       "\nHardware 1:\n- Serial Number: " >> \o hardware1.serial_number
    \o << "\n- Model: ", hardware1.model,
          "\n- Purchase Date: ", hardware1.purchase_date,
          "\n\nHardware 2:\n- Serial Number: " >> \o hardware2.serial_number
    \o << "\n- Model: ", hardware2.model,
          "\n- Purchase Date: ", hardware2.purchase_date, "\n" >>


-----------------------------------------------------------------------------
(* The sampling episode: the driver constructs a task with a seed, calls
   setup_goal, and may construct the task again with the same seed *)

SampleClasses == {LoopClasses[i] : i \in 1..Len(LoopClasses)} \cup {"CompareHardwareDate"}

\* the Faker and uuid4() values one setup_goal of class c consumes
NameInputs(c) ==
    IF c \in UserLoopClasses THEN [1..num_items(c) -> NameDraws] ELSE {<<>>}

WordInputs(c) ==
    IF c \in WordLoopClasses THEN [1..num_items(c) -> WordDraws] ELSE {<<>>}

UuidInputs(c) ==
    IF c = "CompareHardwareDate"
    THEN {<<u1, u2>> : u1 \in Uuids, u2 \in Uuids} \ {<<u, u>> : u \in Uuids}
    ELSE {<<>>}

\* setup_goal without fixed_config: the items, the subtask sequence and the task
\* description it leaves in the task
setup_goal_result(c, seed, id, names, words, uuids) ==
    IF c = "CompareHardwareDate"
    THEN LET config == compare_hardware_get_config(seed, uuids[1], uuids[2])
         IN  [items |-> <<config.hardware1, config.hardware2>>,
              config |-> config.tasks,
              goal |-> compare_hardware_task_description(config.hardware1, config.hardware2)]
    ELSE LET items == [i \in 1..num_items(c) |->
                          loop_item(c, seed, id, i,
                                    IF names = <<>> THEN <<>> ELSE names[i],
                                    IF words = <<>> THEN <<>> ELSE words[i])]
         IN  [items |-> items,
              config |-> loop_get_config(c, items, seed),
              goal |-> loop_task_description(c, items)]

InitSample ==
    /\ NoTeardown
    /\ NoEpisodes
    /\ NoExpense
    /\ NoSetup
    /\ NoComparison
    /\ NoConditional
    /\ NoOffboard
    /\ smp_class \in SampleClasses
    /\ smp_seed \in Seeds
    /\ smp_id = 0
    /\ smp_items = <<>>
    /\ smp_config = <<>>
    /\ smp_goal = <<>>
    /\ smp_pc = "new"
    /\ first_run = <<>>

\* __init__: a task object of the class is constructed with the seed.
\* CreateMultipleUserTask.__init__ reads self.instance before the base
\* constructor has run: it raises unless a base class gives the attribute.
SampleConstruct ==
    /\ smp_pc \in {"new", "ready", "init_raised"}
    /\ \E id \in ObjectIds, has_instance \in BOOLEAN :
          /\ smp_id' = id
          /\ smp_pc' = IF smp_class = "CreateMultipleUserTask" /\ ~has_instance
                       THEN "init_raised"
                       ELSE "constructed"
    /\ smp_items' = <<>>
    /\ smp_config' = <<>>
    /\ smp_goal' = <<>>
    /\ UNCHANGED <<smp_class, smp_seed, first_run>>
    /\ UNCHANGED cmpVars
    /\ UNCHANGED condVars
    /\ UNCHANGED obVars
    /\ UNCHANGED suVars
    /\ UNCHANGED <<tdVars, epVars, exVars>>

\* setup_goal of the constructed task
SampleSetupGoal ==
    /\ smp_pc = "constructed"
    /\ \E names \in NameInputs(smp_class), words \in WordInputs(smp_class),
          uuids \in UuidInputs(smp_class) :
          LET r == setup_goal_result(smp_class, smp_seed, smp_id, names, words, uuids)
          IN  /\ smp_items' = r.items
              /\ smp_config' = r.config
              /\ smp_goal' = r.goal
              /\ first_run' = IF first_run = <<>>
                              THEN <<[config |-> r.config, goal |-> r.goal]>>
                              ELSE first_run
    /\ smp_pc' = "ready"
    /\ UNCHANGED <<smp_class, smp_seed, smp_id>>
    /\ UNCHANGED cmpVars
    /\ UNCHANGED condVars
    /\ UNCHANGED obVars
    /\ UNCHANGED suVars
    /\ UNCHANGED <<tdVars, epVars, exVars>>

NextSample ==
    \/ SampleConstruct
    \/ SampleSetupGoal

SpecSample == InitSample /\ [][NextSample]_vars

-----------------------------------------------------------------------------
(* Claims about configuration sampling and the repetition tasks *)

\* C9: two runs of configuration sampling with the same seed give the same
\* ordered subtask sequence and the same goal text, generated identifiers
\* included.
C9_SameSeedSameSampling ==
    smp_pc = "ready" =>
        [config |-> smp_config, goal |-> smp_goal] = first_run[1]

\* the identifiers generated for one iteration, by kind
identifiers(c, item, subtask) ==
    IF c = "CreateMultipleHardwareAssetTask"
    THEN [name |-> item.short_description,
          serial_number |-> subtask.fixed_config.serial_number]
    ELSE item

\* C10: one setup of a repetition task with N = 3 produces exactly 3 iteration
\* chains, and the identifiers generated for the iterations are mutually
\* distinct, kind by kind.
C10_ThreeDistinctChains ==
    (smp_pc = "ready" /\ smp_class # "CompareHardwareDate") =>
        LET chain == Len(smp_config) \div 3
            ids(i) == identifiers(smp_class, smp_items[i], smp_config[i * chain])
        IN  /\ Len(smp_items) = 3
            /\ Len(smp_config) = 3 * chain
            /\ \A i \in 1..3 : smp_config[(i - 1) * chain + 1].cls = "AllMenuTask"
            /\ \A i \in 1..3, j \in 1..3 :
                  i < j => \A f \in DOMAIN ids(i) : ids(i)[f] # ids(j)[f]


-----------------------------------------------------------------------------
(* Claims about the expanded sequence of a repetition task *)

\* the chain length of a repetition task: three subtasks to unassign the
\* laptop and two to delete the user for offboarding, two subtasks otherwise
chain_length(c) == IF c = "OffBoardMultipleUserTask" THEN 5 ELSE 2

\* the subtasks of the i-th chain of the expanded sequence
chain_at(i) ==
    SubSeq(smp_config, (i - 1) * chain_length(smp_class) + 1, i * chain_length(smp_class))

IsNavigationOrFilter(t) == t.cls \in {"AllMenuTask", "FilterHardwareListTask"}

\* C11: the expanded sequence of a repetition task is N chains back to back in
\* the order the items were generated; every chain has the same length (2, or 5
\* for offboarding), begins with a navigation subtask that is not validated,
\* has no validated navigation or filter subtask, and ends with a validated
\* subtask.
C11_ChainsBackToBack ==
    (smp_pc = "ready" /\ smp_class # "CompareHardwareDate") =>
        /\ Len(smp_config) = num_items(smp_class) * chain_length(smp_class)
        /\ \A i \in 1..num_items(smp_class) :
              /\ chain_at(i) = loop_chain(smp_class, smp_items[i], smp_seed, i)
              /\ chain_at(i)[1].cls = "AllMenuTask"
              /\ ~chain_at(i)[1].is_validated
              /\ \A j \in 1..chain_length(smp_class) :
                    IsNavigationOrFilter(chain_at(i)[j]) => ~chain_at(i)[j].is_validated
              /\ chain_at(i)[chain_length(smp_class)].is_validated
              /\ ~IsNavigationOrFilter(chain_at(i)[chain_length(smp_class)])

\* an offboarding task set up with three users of different names
C11_Witness ==
    /\ smp_pc = "ready"
    /\ smp_class = "OffBoardMultipleUserTask"
    /\ Len(smp_config) = 15
    /\ smp_items[1].user_full_name # smp_items[3].user_full_name
    /\ chain_at(3)[5].fixed_config.field_value = smp_items[3].user_full_name


-----------------------------------------------------------------------------
(* The offboarding episode: OffBoardMultipleUserTask with num_users = 1, whose
   sequence has five elements, two of them validated *)

\* the record store after setup_goal created the user and the laptop assigned
\* to the user; the agent is on the home page with no filter applied
offboard_initial_env(item) ==
    [assigned_to |-> {item.user_sys_id},
     users |-> {item.user_sys_id},
     page |-> "Home",
     filter |-> <<>>]

InitOffboard ==
    /\ NoTeardown
    /\ NoEpisodes
    /\ NoExpense
    /\ NoSetup
    /\ NoComparison
    /\ NoConditional
    /\ NoSample
    /\ ob_seq = <<>>
    /\ ob_env = None
    /\ ob_pc = "constructed"
    /\ ob_ret = None

\* setup_goal of OffBoardMultipleUserTask(num_users=1) without fixed_config
OffboardSetupGoal ==
    /\ ob_pc = "constructed"
    /\ \E names \in NameDraws, id \in ObjectIds, seed \in Seeds :
          LET item == loop_item("OffBoardMultipleUserTask", seed, id, 1, names, <<>>)
          IN  /\ ob_seq' = loop_get_config("OffBoardMultipleUserTask", <<item>>, seed)
              /\ ob_env' = offboard_initial_env(item)
    /\ ob_pc' = "ready"
    /\ ob_ret' = None
    /\ UNCHANGED <<cmpVars, condVars, smpVars, suVars, tdVars, epVars, exVars>>

\* the agent carries out one element of the sequence, in any order
OffboardAgentStep ==
    /\ ob_pc \in {"ready", "acted", "validated"}
    /\ \E i \in 1..Len(ob_seq) : ob_env' = subtask_cheat(ob_seq[i], ob_env)
    /\ ob_env' # ob_env
    /\ ob_pc' = "acted"
    /\ ob_ret' = None
    /\ UNCHANGED ob_seq
    /\ UNCHANGED <<cmpVars, condVars, smpVars, suVars, tdVars, epVars, exVars>>

\* the agent assigns the laptop to somebody again
OffboardAgentReassign ==
    /\ ob_pc \in {"ready", "acted", "validated"}
    /\ ob_env.assigned_to = {}
    /\ ob_env' = [ob_env EXCEPT !.assigned_to = {<<"sys_user", 0>>}]
    /\ ob_pc' = "acted"
    /\ ob_ret' = None
    /\ UNCHANGED ob_seq
    /\ UNCHANGED <<cmpVars, condVars, smpVars, suVars, tdVars, epVars, exVars>>

\* the composite-level validate is called on the final state
OffboardValidate ==
    /\ ob_pc \in {"ready", "acted"}
    /\ ob_ret' = composite_validate(ob_seq, ob_env)
    /\ ob_pc' = "validated"
    /\ UNCHANGED <<ob_seq, ob_env>>
    /\ UNCHANGED <<cmpVars, condVars, smpVars, suVars, tdVars, epVars, exVars>>

NextOffboard ==
    \/ OffboardSetupGoal
    \/ OffboardAgentStep
    \/ OffboardAgentReassign
    \/ OffboardValidate

SpecOffboard == InitOffboard /\ [][NextOffboard]_vars

\* C12: for a sequence of 5 elements of which 2 are marked is_validated, the
\* composite-level validate reports success (reward 1.0, done) exactly when
\* both marked elements' validate succeed on the final state; the 3 unmarked
\* elements' outcomes do not enter.
C12_BothMarkedElementsDecide ==
    ob_pc = "validated" =>
        /\ Len(ob_seq) = 5
        /\ {i \in 1..5 : ob_seq[i].is_validated} = {3, 5}
        /\ (ob_ret.reward = 10 /\ ob_ret.done)
              <=> ( /\ subtask_validate(ob_seq[3], ob_env).done
                    /\ subtask_validate(ob_seq[5], ob_env).done )
        /\ ob_ret.reward = 10 <=> ob_ret.done

\* success reported while an unmarked element's own validate fails
C12_Witness ==
    /\ ob_pc = "validated"
    /\ ob_ret.reward = 10
    /\ ~subtask_validate(ob_seq[2], ob_env).done
    /\ subtask_validate(ob_seq[3], ob_env).done
    /\ subtask_validate(ob_seq[5], ob_env).done


-----------------------------------------------------------------------------
(* cheat of the comparison tasks, and the drivers that call it *)

\* subtask_idx = None
NoIndex == -1

ComparePolarityWord(k, pol) ==
    CASE k = "CompareHardwareDate" -> IF pol THEN "earlier" ELSE "later"
      [] k = "CompareIncidentBusinessDuration" -> IF pol THEN "longer" ELSE "shorter"
      [] OTHER -> IF pol THEN "higher" ELSE "lower"

CompareModule(k) ==
    CASE k = "CompareHardwareDate" -> "Portfolios > Hardware Assets"
      [] k = "CompareExpenseLineAmountTask" -> "Expense Lines"
      [] OTHER -> "Open"

CompareFilterClass(k) ==
    CASE k = "CompareHardwareDate" -> "FilterHardwareListTask"
      [] k = "CompareChangeRequestPriority" -> "FilterChangeRequestListTask"
      [] k = "CompareProblemPriority" -> "FilterProblemListTask"
      [] k = "CompareIncidentBusinessDuration" -> "FilterIncidentListTask"
      [] k = "CompareExpenseLineAmountTask" -> "FilterExpenseLineListTask"

\* self.subtasks of a comparison task: the tasks list _get_config returns
compare_subtasks(k, r1, r2) ==
    << Task("AllMenuTask", CompareModule(k), None, FALSE),
       Task(CompareFilterClass(k), [filter_values |-> r1.number], None, TRUE),
       Task(CompareFilterClass(k), [filter_values |-> r2.number], None, TRUE) >>

\* the f-string of an answer that names the record and leaves out its attribute
cheat_message_number_only(k, pol, selected) ==
    <<"The record is ">> \o selected.number \o <<".">>

\* the f-string of the answer message
cheat_message(k, pol, selected) ==
    CASE k = "CompareHardwareDate" ->
            <<"The hardware with serial number ">> \o selected.number
                \o <<" was purchased ", ComparePolarityWord(k, pol), " on ">>
                \o selected.attr \o <<".">>
      [] k = "CompareChangeRequestPriority" ->
            <<"The change request ">> \o selected.number
                \o <<" has ", ComparePolarityWord(k, pol), " priority with priority level ">>
                \o selected.attr \o <<".">>
      [] k = "CompareProblemPriority" ->
            <<"The problem ">> \o selected.number
                \o <<" has ", ComparePolarityWord(k, pol), " priority with priority level ">>
                \o selected.attr \o <<".">>
      [] k = "CompareIncidentBusinessDuration" ->
            <<"The incident ">> \o selected.number
                \o <<" has ", ComparePolarityWord(k, pol), " business duration with ">>
                \o selected.attr \o <<" seconds.">>
      [] k = "CompareExpenseLineAmountTask" ->
            <<"The expense line ">> \o selected.number
                \o <<" has ", ComparePolarityWord(k, pol), " amount with $">>
                \o selected.attr \o <<".">>

\* the composite-level cheat the comparison tasks call first: in full mode
\* every element's cheat in order, in step mode the subtask_idx-th only;
\* returns the indices dispatched to
CompositionalTask_cheat(sub, subtask_idx) ==
    IF subtask_idx = NoIndex
    THEN [i \in 1..Len(sub) |-> i - 1]
    ELSE <<subtask_idx>>

\* cheat with the answer appended on every call
cheat_answer_every_step(k, pol, r1, r2, msgs, log, subtask_idx) ==
    [chat_messages |->
        Append(msgs, Dict("assistant", cheat_message(k, pol, get_selected(k, pol, r1, r2)))),
     cheat_log |-> log \o CompositionalTask_cheat(compare_subtasks(k, r1, r2), subtask_idx)]

\* cheat of a comparison task: the transcript and the dispatch log after the call
cheat(k, pol, r1, r2, msgs, log, subtask_idx) ==
    LET sub == compare_subtasks(k, r1, r2)
        log1 == log \o CompositionalTask_cheat(sub, subtask_idx)
    IN  IF subtask_idx = NoIndex \/ subtask_idx = Len(sub) - 1
        THEN [chat_messages |->
                Append(msgs,
                       Dict("assistant", cheat_message(k, pol, get_selected(k, pol, r1, r2)))),
              cheat_log |-> log1]
        ELSE [chat_messages |-> msgs, cheat_log |-> log1]

\* env.chat.add_message(role="assistant", msg=f"Executing subtask {i}: ...")
executing_message(i) == Dict("assistant", <<"Executing subtask ", ToString(i)>>)

\* one pass of the step-wise driver loop: it announces subtask i and calls
\* cheat with subtask_idx=i, for i = 0 .. len(task) - 1 in order
DriverStepCheat ==
    /\ cmp_pc \in {"ready", "cheating"}
    /\ driver \in {None, "step"}
    /\ LET i == Len(cheat_log)
           r == cheat(kind, polarity, record1, record2,
                      Append(chat_messages, executing_message(i)), cheat_log, i)
       IN  /\ i < Len(compare_subtasks(kind, record1, record2))
           /\ chat_messages' = r.chat_messages
           /\ cheat_log' = r.cheat_log
           /\ cmp_pc' = IF i = Len(compare_subtasks(kind, record1, record2)) - 1
                        THEN "cheated" ELSE "cheating"
    /\ driver' = "step"
    /\ UNCHANGED <<kind, polarity, record1, record2, used_uuids, cmp_ret>>
    /\ UNCHANGED <<condVars, smpVars, obVars, suVars, tdVars, epVars, exVars>>

\* the driver calls cheat once with subtask_idx=None
DriverFullCheat ==
    /\ cmp_pc = "ready"
    /\ driver = None
    /\ LET r == cheat(kind, polarity, record1, record2, chat_messages, cheat_log, NoIndex)
       IN  /\ chat_messages' = r.chat_messages
           /\ cheat_log' = r.cheat_log
    /\ cmp_pc' = "cheated"
    /\ driver' = "full"
    /\ UNCHANGED <<kind, polarity, record1, record2, used_uuids, cmp_ret>>
    /\ UNCHANGED <<condVars, smpVars, obVars, suVars, tdVars, epVars, exVars>>

NextCheat ==
    \/ CompareSetupGoal
    \/ DriverStepCheat
    \/ DriverFullCheat

SpecCheat == InitCompare /\ [][NextCheat]_vars

IsAnswer(m) == m.message[1] # "Executing subtask "

\* the answer a full-mode cheat appends for the task as set up
full_mode_answer ==
    cheat(kind, polarity, record1, record2, <<>>, <<>>, NoIndex).chat_messages[1]

\* C13: step-mode cheat with subtask_idx=i dispatches to step i only and
\* appends the answer only when i is the last index, so the step-wise driver
\* appends exactly one answer over i = 0..len-1, the one full-mode cheat appends.
C13_StepModeOneAnswer ==
    /\ driver = "step" =>
          /\ cheat_log = [i \in 1..Len(cheat_log) |-> i - 1]
          /\ Len(chat_messages) = Len(cheat_log) + (IF cmp_pc = "cheated" THEN 1 ELSE 0)
          /\ SelectSeq(chat_messages, IsAnswer)
                = IF cmp_pc = "cheated" THEN <<full_mode_answer>> ELSE <<>>
    /\ driver = "full" =>
          /\ cheat_log = <<0, 1, 2>>
          /\ chat_messages = <<full_mode_answer>>

\* the step-wise driver has finished on a task whose first record is selected
C13_Witness ==
    /\ driver = "step"
    /\ cmp_pc = "cheated"
    /\ cheat_log = <<0, 1, 2>>
    /\ get_selected(kind, polarity, record1, record2) = record1
    /\ chat_messages[4] = full_mode_answer


-----------------------------------------------------------------------------
(* setup_goal with its collaborators: the fixed_config given to the         *)
(* constructor, the template pool all_configs() returns, and the calls that *)
(* create records in the record store                                       *)

MaxPool == 3

SetupClasses == Kinds \cup {"EditHardwareConditionalTask", "OffBoardMultipleUserTask"}

\* the comparison tasks that sample two templates from all_configs()
PoolKinds == Kinds \ {"CompareExpenseLineAmountTask"}

\* the template configurations a pool can hold: one per comparator value and
\* one whose comparator attribute is empty
PoolConfigs(k) == {[name |-> <<"template ">> \o a, attr |-> a] : a \in AttrValues(k) \cup {<<>>}}

Pools(k) ==
    IF k \in PoolKinds
    THEN UNION {[1..n -> PoolConfigs(k)] : n \in 0..MaxPool}
    ELSE {<<>>}

\* what a call that creates a record can do: create it and return it, raise,
\* or return without a record (a false sys_id, a response with no result)
CreationOutcomes == {"created", "raises", "no record"}

Event(ev, what, outcome) == [ev |-> ev, what |-> what, outcome |-> outcome]

\* how a run of setup_goal ended: the exception it raised or the sequence
\* its goal was built from, the calls it made, the records now in the store,
\* the templates drawn and the records the task keeps for its description
Ended(raised, goal, trace, store, drawn, records) ==
    [raised |-> raised, goal |-> goal, trace |-> trace, store |-> store,
     drawn |-> drawn, records |-> records]

\* the sys_id of the n-th record created in a table
SysId(table, n) == <<table, n>>

CompareTable(k) ==
    CASE k = "CompareHardwareDate" -> "alm_hardware"
      [] k = "CompareChangeRequestPriority" -> "change_request"
      [] k = "CompareProblemPriority" -> "problem"
      [] k = "CompareIncidentBusinessDuration" -> "incident"
      [] k = "CompareExpenseLineAmountTask" -> "fm_expense_line"

\* [config for config in configs if config["template_record"][attribute]]
with_attribute(configs) == SelectSeq(configs, LAMBDA c : c.attr # <<>>)

\* the two records are created and the subtasks built from what the calls
\* returned; o1 and o2 are what the two creation calls do, c1 and c2 the
\* sampled configurations (or amounts)
compare_create_records(k, c1, c2, o1, o2, uuids, trace) ==
    LET e1 == Event("create", CompareTable(k), o1)
        e2 == Event("create", CompareTable(k), o2)
        s1 == IF o1 = "created" THEN {SysId(CompareTable(k), 1)} ELSE {}
        s2 == IF o2 = "created" THEN {SysId(CompareTable(k), 2)} ELSE {}
        r1 == Record(k, uuids[1], c1.attr)
        r2 == Record(k, uuids[2], c2.attr)
    IN  IF o1 = "raises"
        THEN Ended("CollaboratorError", <<>>, trace \o <<e1>>, {}, <<c1, c2>>, <<>>)
        ELSE IF o2 = "raises"
        THEN Ended("CollaboratorError", <<>>, trace \o <<e1, e2>>, s1, <<c1, c2>>, <<>>)
        ELSE IF o1 = "no record" \/ o2 = "no record"
        THEN \* hardware1_record["result"]["serial_number"], ["result"][0]
             Ended(IF k = "CompareExpenseLineAmountTask" THEN "IndexError" ELSE "TypeError",
                   <<>>, trace \o <<e1, e2>>, s1 \cup s2, <<c1, c2>>, <<>>)
        ELSE Ended(None, compare_subtasks(k, r1, r2),
                   trace \o <<e1, e2, Event("subtasks", "", "")>>,
                   s1 \cup s2, <<c1, c2>>, <<r1, r2>>)

\* a _get_config that creates the two records before it samples
compare_get_config_records_first(k, pool, d1, d2, o1, o2, uuids) ==
    LET blank == [name |-> <<>>, attr |-> <<>>]
        r == compare_create_records(k, blank, blank, o1, o2, uuids,
                                    <<Event("_get_config", "", "")>>)
    IN  IF r.raised # None THEN r ELSE [r EXCEPT !.raised = "ValueError", !.goal = <<>>]

\* _get_config of a comparison task. d1 and d2 are the generator's two draws,
\* reduced to an index of the population; self.random.choice(0) raises
compare_get_config(k, pool, d1, d2, o1, o2, uuids) ==
    LET trace == <<Event("_get_config", "", "")>>
        configs == with_attribute(pool)
    IN  IF k = "CompareExpenseLineAmountTask"
        THEN \* the amounts of two randint(1000, 10000) draws; the second is
             \* drawn again while it equals the first
             LET amount1 == [name |-> <<>>, attr |-> <<"1", "0", "0", "0">>]
                 amount2 == [name |-> <<>>, attr |-> <<"9", "4", "2", "7">>]
             IN  IF d1 % 2 = 0
                 THEN compare_create_records(k, amount1, amount2, o1, o2, uuids, trace)
                 ELSE compare_create_records(k, amount2, amount1, o1, o2, uuids, trace)
        ELSE IF choice(Len(configs)) = {}
        THEN Ended("ValueError", <<>>, trace, {}, <<>>, <<>>)
        ELSE LET c1 == configs[(d1 % Len(configs)) + 1]
                 remaining == remaining_configs(configs, c1)
             IN  IF choice(Len(remaining)) = {}
                 THEN Ended("ValueError", <<>>, trace, {}, <<c1>>, <<>>)
                 ELSE compare_create_records(k, c1, remaining[(d2 % Len(remaining)) + 1],
                                             o1, o2, uuids, trace)

\* setup_goal of a comparison task: the configuration is resolved, then the
\* description is formatted from self.hardware1 / change1 / ... / expense1,
\* which are None until _get_config assigns them
compare_setup_goal(k, fixed_config, pool, d1, d2, o1, o2, uuids) ==
    LET g == IF fixed_config # <<>>
             THEN Ended(None, fixed_config, <<>>, {}, <<>>, <<>>)
             ELSE compare_get_config(k, pool, d1, d2, o1, o2, uuids)
    IN  IF g.raised # None THEN g
        ELSE IF g.records = <<>>
        THEN [g EXCEPT !.raised = "TypeError", !.goal = <<>>]
        ELSE g

\* setup_goal of EditHardwareConditionalTask: the description is formatted
\* from self.hardware_config, which is None until _get_config samples it;
\* p and i are the two draws of _get_config, which creates no record
edit_hardware_setup_goal(fixed_config, p, i) ==
    LET c == "EditHardwareConditionalTask"
    IN  IF fixed_config # <<>>
        THEN Ended("TypeError", <<>>, <<>>, {}, <<>>, <<>>)
        ELSE Ended(None,
                   get_config(c, ControlPool(c)[p + 1], i, OrderConfigs[1], OrderConfigs[1]),
                   <<Event("_get_config", "", ""), Event("subtasks", "", "")>>,
                   {}, <<>>, <<>>)

\* the passes i, i + 1, ... of the loop of OffBoardMultipleUserTask.setup_goal.
\* outcomes[2 * i - 1] is what create_user does in pass i and outcomes[2 * i]
\* what create_computer_asset does; user_sys_id is asserted, laptop_sys_id is
\* stored as returned. acc is the run so far, its records the items appended
RECURSIVE offboard_passes(_, _, _, _, _)
offboard_passes(i, id, names, outcomes, acc) ==
    IF i > num_items("OffBoardMultipleUserTask") THEN acc
    ELSE LET u == outcomes[2 * i - 1]
             l == outcomes[2 * i]
             first_name == <<names[i][1], "-", names[i][2]>>
             last_name == <<names[i][3], "-", names[i][4]>>
             e_user == Event("create", "sys_user", u)
             e_laptop == Event("create", "alm_hardware", l)
             item == [user_full_name |-> first_name \o <<" ">> \o last_name,
                      user_name |-> first_name \o <<".">> \o last_name,
                      user_sys_id |-> SysId("sys_user", i),
                      laptop_asset_tag |-> <<"P", id % (10^8)>>,
                      laptop_sys_id |->
                          IF l = "created" THEN SysId("alm_hardware", i) ELSE <<>>]
         IN  IF u = "raises"
             THEN [acc EXCEPT !.raised = "CollaboratorError", !.trace = @ \o <<e_user>>]
             ELSE IF u = "no record"
             THEN [acc EXCEPT !.raised = "AssertionError", !.trace = @ \o <<e_user>>]
             ELSE IF l = "raises"
             THEN [acc EXCEPT !.raised = "CollaboratorError",
                              !.trace = @ \o <<e_user, e_laptop>>,
                              !.store = @ \cup {SysId("sys_user", i)}]
             ELSE offboard_passes(i + 1, id, names, outcomes,
                     [acc EXCEPT !.trace = @ \o <<e_user, e_laptop>>,
                                 !.store = @ \cup {SysId("sys_user", i)}
                                             \cup (IF l = "created"
                                                   THEN {SysId("alm_hardware", i)}
                                                   ELSE {}),
                                 !.records = Append(@, item)])

\* setup_goal of OffBoardMultipleUserTask: the users and laptops are created
\* first, then the configuration is resolved
offboard_setup_goal(fixed_config, id, names, outcomes) ==
    LET created == offboard_passes(1, id, names, outcomes,
                                   Ended(None, <<>>, <<>>, {}, <<>>, <<>>))
    IN  IF created.raised # None THEN created
        ELSE IF fixed_config # <<>>
        THEN [created EXCEPT !.goal = fixed_config]
        ELSE [created EXCEPT
                !.goal = loop_get_config("OffBoardMultipleUserTask", created.records, 0),
                !.trace = @ \o <<Event("_get_config", "", ""), Event("subtasks", "", "")>>]

\* the Faker draws of a pass of the loop, two of NameDraws
SetupNameDraws == {<<"Ann", "Bob", "Kim", "Kim">>, <<"Bob", "Ann", "Kim", "Kim">>}

\* the sequences a caller replays as fixed_config: what _get_config of the
\* class returned in an earlier episode
FixedConfigs(c) ==
    CASE c \in Kinds ->
            {compare_subtasks(c, Record(c, <<"1", "a", "-", "4", "b">>, a),
                                 Record(c, <<"c", "2", "-", "4", "d">>, b)) :
                <<a, b>> \in {p \in AttrValues(c) \X AttrValues(c) : p[1] # p[2]}}
      [] c = "EditHardwareConditionalTask" ->
            {get_config(c, v, 0, OrderConfigs[1], OrderConfigs[1]) : v \in {"Laptop", "Desktop"}}
      [] c = "OffBoardMultipleUserTask" ->
            {loop_get_config(c, [i \in 1..num_items(c) |->
                                    loop_item(c, 0, id, i, <<"Ann", "Bob", "Kim", "Kim">>, <<>>)],
                             0) : id \in ObjectIds}

InitSetup ==
    /\ NoTeardown
    /\ NoEpisodes
    /\ NoExpense
    /\ NoComparison
    /\ NoConditional
    /\ NoSample
    /\ NoOffboard
    /\ su_class \in SetupClasses
    /\ su_fixed = <<>>
    /\ su_pool \in Pools(su_class)
    /\ su_ret = None
    /\ su_pc = "new"

\* __init__(fixed_config=...): the task is constructed with or without a
\* fixed configuration
SetupConstruct ==
    /\ su_pc = "new"
    /\ su_fixed' \in FixedConfigs(su_class) \cup {<<>>}
    /\ su_pc' = "constructed"
    /\ UNCHANGED <<su_class, su_pool, su_ret>>
    /\ UNCHANGED <<cmpVars, condVars, smpVars, obVars, tdVars, epVars, exVars>>

\* setup_goal of the constructed task, run to its return or its exception
SetupGoal ==
    /\ su_pc = "constructed"
    /\ \/ /\ su_class \in Kinds
          /\ \E d1 \in choice(MaxPool), d2 \in choice(MaxPool),
                o1 \in CreationOutcomes, o2 \in CreationOutcomes,
                uuids \in UuidInputs("CompareHardwareDate") :
                su_ret' = compare_setup_goal(su_class, su_fixed, su_pool,
                                             d1, d2, o1, o2, uuids)
       \/ /\ su_class = "EditHardwareConditionalTask"
          /\ \E p \in pool_draws(su_class) :
             \E i \in candidate_draws(su_class, ControlPool(su_class)[p + 1]) :
                su_ret' = edit_hardware_setup_goal(su_fixed, p, i)
       \/ /\ su_class = "OffBoardMultipleUserTask"
          /\ \E id \in ObjectIds,
                names \in [1..num_items(su_class) -> SetupNameDraws],
                outcomes \in [1..(2 * num_items(su_class)) -> CreationOutcomes] :
                su_ret' = offboard_setup_goal(su_fixed, id, names, outcomes)
    /\ su_pc' = "done"
    /\ UNCHANGED <<su_class, su_fixed, su_pool>>
    /\ UNCHANGED <<cmpVars, condVars, smpVars, obVars, tdVars, epVars, exVars>>

NextSetup ==
    \/ SetupConstruct
    \/ SetupGoal

SpecSetup == InitSetup /\ [][NextSetup]_vars


\* how many times the run called _get_config
get_config_calls(r) == Cardinality({i \in 1..Len(r.trace) : r.trace[i].ev = "_get_config"})

\* C14: when a fixed configuration was supplied, setup_goal does not call
\* _get_config, completes, and returns a goal built from exactly that sequence;
\* when none was supplied, _get_config is called exactly once. The comparison
\* tasks and EditHardwareConditionalTask break it: with a fixed configuration
\* their description reads an attribute that is still None and setup_goal raises.
C14_FixedConfigUsedVerbatim ==
    su_pc = "done" =>
        IF su_fixed # <<>>
        THEN /\ get_config_calls(su_ret) = 0
             /\ su_ret.raised = None
             /\ su_ret.goal = su_fixed
        ELSE get_config_calls(su_ret) = 1


\* C15: in the comparison tasks that sample two configurations from a pool,
\* the second draw is made from the pool without the first draw, so whenever
\* both draws are made the two configurations differ.
C15_SecondDrawExcludesFirst ==
    (su_pc = "done" /\ su_class \in PoolKinds /\ Len(su_ret.drawn) = 2)
        => su_ret.drawn[1] # su_ret.drawn[2]

\* both draws were made from a pool that holds the first draw twice
C15_Witness ==
    /\ su_pc = "done"
    /\ su_class = "CompareProblemPriority"
    /\ Len(su_pool) = 3
    /\ su_pool[1] = su_pool[3]
    /\ Len(su_ret.drawn) = 2
    /\ su_ret.drawn[1] = su_pool[1]
    /\ su_ret.raised = None


-----------------------------------------------------------------------------
(* The selection rule of the comparison tasks *)

\* comparator value a strictly satisfies the task's polarity against b:
\* earlier / later date, higher / lower priority (1 is the highest), longer /
\* shorter duration in seconds, higher / lower amount
StrictlySatisfies(k, pol, a, b) ==
    CASE k = "CompareHardwareDate" ->
            IF pol THEN StrLess(a, b) ELSE StrLess(b, a)
      [] k \in {"CompareChangeRequestPriority", "CompareProblemPriority"} ->
            IF pol THEN ToNumber(a) < ToNumber(b) ELSE ToNumber(a) > ToNumber(b)
      [] k \in {"CompareIncidentBusinessDuration", "CompareExpenseLineAmountTask"} ->
            IF pol THEN ToNumber(a) > ToNumber(b) ELSE ToNumber(a) < ToNumber(b)

\* C16: for every comparison task and both polarities, when the two
\* comparator values are equal the second record is selected, and when they
\* differ the selected record is the one that strictly satisfies the polarity.
\* CompareIncidentBusinessDuration breaks it: it compares the durations as
\* strings, so "900" counts as longer than "3600".
C16_SelectionRule ==
    (cmp_pc \in {"ready", "validated"}) =>
        LET selected == get_selected(kind, polarity, record1, record2)
            other == IF selected = record1 THEN record2 ELSE record1
        IN  IF record1.attr = record2.attr
            THEN selected = record2
            ELSE StrictlySatisfies(kind, polarity, selected.attr, other.attr)


\* the creation calls of the run that did not create their record
failed_creations(r) ==
    {i \in 1..Len(r.trace) : r.trace[i].ev = "create" /\ r.trace[i].outcome # "created"}

\* C17: if a record-creation call made while the configuration is realized
\* does not create its record, setup_goal ends with an exception and returns
\* no goal. OffBoardMultipleUserTask breaks it: the sys_id create_user returns
\* is asserted, the sys_id create_computer_asset returns is stored unchecked.
C17_CreationFailureFailsSetup ==
    (su_pc = "done" /\ failed_creations(su_ret) # {})
        => (su_ret.raised # None /\ su_ret.goal = <<>>)


\* no valid candidate: the filtered pool is empty, or all its entries are
\* equal, so that it is empty once the first draw is excluded
NoCandidate(pool) ==
    LET configs == with_attribute(pool)
    IN  \A i \in 1..Len(configs) : remaining_configs(configs, configs[i]) = <<>>

\* C18: when a comparison task's _get_config has no valid candidate, it raises
\* before any record-creation call is made and before any subtask is built:
\* the record store is unchanged and no goal is returned.
C18_NoCandidateRaisesFirst ==
    (su_pc = "done" /\ su_class \in PoolKinds /\ su_fixed = <<>> /\ NoCandidate(su_pool))
        => /\ su_ret.raised = "ValueError"
           /\ su_ret.trace = <<Event("_get_config", "", "")>>
           /\ su_ret.store = {}
           /\ su_ret.goal = <<>>

\* the pool held one template twice: the first draw was made, and the second
\* had nothing left to draw from
C18_Witness ==
    /\ su_pc = "done"
    /\ su_class = "CompareHardwareDate"
    /\ su_fixed = <<>>
    /\ Len(with_attribute(su_pool)) = 2
    /\ NoCandidate(su_pool)
    /\ Len(su_ret.drawn) = 1
    /\ su_ret.raised = "ValueError"


-----------------------------------------------------------------------------
(* validate of the comparison tasks on any transcript *)

\* the transcript lacks the identifier or the attribute of the record the
\* task selects
Mismatch ==
    LET selected == get_selected(kind, polarity, record1, record2)
    IN  ~ ( /\ \E i \in 1..Len(chat_messages) :
                  Contains(message_text(chat_messages[i]), selected.number)
            /\ \E i \in 1..Len(chat_messages) :
                  Contains(message_text(chat_messages[i]), selected.attr) )

\* C19: on a set-up comparison task, validate of any transcript of dict and
\* str entries, dicts without a "message" key included, returns the four
\* values (reward, done, message, info); a mismatch comes back as a reward of
\* 0.5 or 0.0, not done, with a message that is not empty.
C19_ValidateReturnsOnAnyTranscript ==
    cmp_pc = "validated" =>
        /\ DOMAIN cmp_ret = {"reward", "done", "message", "info"}
        /\ cmp_ret.reward \in {0, 5, 10}
        /\ cmp_ret.done \in BOOLEAN
        /\ cmp_ret.message # ""
        /\ Mismatch => (cmp_ret.reward \in {0, 5} /\ ~cmp_ret.done)

\* a dict without "message" followed by a plain str, scored partially
C19_Witness ==
    /\ cmp_pc = "validated"
    /\ Len(chat_messages) = 2
    /\ chat_messages[1].form = "dict"
    /\ ~chat_messages[1].has_message
    /\ chat_messages[2].form = "str"
    /\ Mismatch
    /\ cmp_ret.reward = 5


-----------------------------------------------------------------------------
(* validate as a read-only call: comparison tasks and ConditionalTask *)

InitValidate == InitCompare \/ InitCond

NextValidate == NextCompare \/ NextCond

\* the comparison episode and the conditional episode side by side
SpecValidate == InitValidate /\ [][NextValidate]_vars

\* C20: a call of validate on a comparison task or a ConditionalTask leaves
\* the transcript as it was (same entries, same order, same length) and the
\* task's state as it was (the two records, the polarity, the subtask
\* sequence and the record store), and a call repeated on the same transcript
\* returns what the call before it returned.
C20_ValidateReadOnly ==
    [][ /\ (cmp_pc' = "validated" /\ CompareValidate) =>
              /\ chat_messages' = chat_messages
              /\ <<kind, polarity, record1, record2>>' = <<kind, polarity, record1, record2>>
              /\ cmp_pc = "validated" => cmp_ret' = cmp_ret
        /\ (cond_pc' = "validated" /\ CondValidate) =>
              /\ chat_messages' = chat_messages
              /\ <<cond_class, subtasks, env, set_up>>' = <<cond_class, subtasks, env, set_up>>
              /\ cond_pc = "validated" => cond_ret' = cond_ret ]_vars

\* validate has returned on a transcript of two different entries
C20_Witness ==
    /\ cmp_pc = "validated"
    /\ Len(chat_messages) = 2
    /\ chat_messages[1] # chat_messages[2]
    /\ cmp_ret = validate(kind, polarity, record1, record2, chat_messages)
    /\ cmp_ret.reward = 10


-----------------------------------------------------------------------------
(* Setup, episode and teardown of the tasks that create records: the three  *)
(* multi-user repetition tasks and the comparison tasks                      *)

MaxTeardowns == 2

TdClasses == UserLoopClasses \cup Kinds

\* a call teardown made: the lookup or the delete of a user, or the base
\* class's teardown
TdCall(op, sys_id, raised) == [op |-> op, sys_id |-> sys_id, raised |-> raised]

\* the outcomes of a run's creation calls in which at most one call fails
OneFailure(n) ==
    {[j \in 1..n |-> IF j = k THEN o ELSE "created"] :
        k \in 0..n, o \in CreationOutcomes \ {"created"}}

\* the creation loop that appends every user only once all passes are done
RECURSIVE user_passes_append_at_end(_, _, _, _)
user_passes_append_at_end(c, i, outcomes, acc) ==
    IF i > num_items(c)
    THEN [acc EXCEPT !.users = [j \in 1..num_items(c) |-> SysId("sys_user", j)]]
    ELSE LET u == outcomes[2 * i - 1]
             l == outcomes[2 * i]
             offboard == c = "OffBoardMultipleUserTask"
         IN  IF u = "raises" THEN [acc EXCEPT !.raised = "CollaboratorError", !.failed = i]
             ELSE IF u = "no record" THEN [acc EXCEPT !.raised = "AssertionError", !.failed = i]
             ELSE IF offboard /\ l = "raises"
             THEN [acc EXCEPT !.raised = "CollaboratorError", !.failed = i,
                              !.store = @ \cup {SysId("sys_user", i)}]
             ELSE user_passes_append_at_end(c, i + 1, outcomes,
                     [acc EXCEPT !.store = @ \cup {SysId("sys_user", i)}
                                             \cup (IF offboard /\ l = "created"
                                                   THEN {SysId("alm_hardware", i)}
                                                   ELSE {})])

\* the passes i, i + 1, ... of the creation loop of setup_goal in the three
\* multi-user tasks: create_user, assert user_sys_id, in OffBoard
\* create_computer_asset, then self.users.append. outcomes[2 * i - 1] is what
\* create_user does in pass i, outcomes[2 * i] what create_computer_asset does
RECURSIVE user_passes(_, _, _, _)
user_passes(c, i, outcomes, acc) ==
    IF i > num_items(c) THEN acc
    ELSE LET u == outcomes[2 * i - 1]
             l == outcomes[2 * i]
             offboard == c = "OffBoardMultipleUserTask"
         IN  IF u = "raises" THEN [acc EXCEPT !.raised = "CollaboratorError", !.failed = i]
             ELSE IF u = "no record" THEN [acc EXCEPT !.raised = "AssertionError", !.failed = i]
             ELSE IF offboard /\ l = "raises"
             THEN [acc EXCEPT !.raised = "CollaboratorError", !.failed = i,
                              !.store = @ \cup {SysId("sys_user", i)}]
             ELSE user_passes(c, i + 1, outcomes,
                     [acc EXCEPT !.users = Append(@, SysId("sys_user", i)),
                                 !.store = @ \cup {SysId("sys_user", i)}
                                             \cup (IF offboard /\ l = "created"
                                                   THEN {SysId("alm_hardware", i)}
                                                   ELSE {})])

\* the teardown of the base class, after a setup that completed or failed:
\* it tears down the subtasks, which own none of the records the composite
\* task created
CompositionalTask_teardown(acc) ==
    [acc EXCEPT !.log = Append(@, TdCall("super().teardown", <<>>, FALSE))]

\* the for loop of teardown that deletes every user of self.users without
\* looking at what the lookup returned
RECURSIVE teardown_loop_delete_always(_, _, _)
teardown_loop_delete_always(users, acc, fail) ==
    IF users = <<>> THEN acc
    ELSE LET user_sys_id == Head(users)
             n == Len(acc.log) + 1
         IN  IF fail = n
             THEN [acc EXCEPT !.raised = TRUE,
                              !.log = Append(@, TdCall("lookup", user_sys_id, TRUE))]
             ELSE IF fail = n + 1
             THEN [acc EXCEPT !.raised = TRUE,
                              !.log = @ \o <<TdCall("lookup", user_sys_id, FALSE),
                                             TdCall("delete", user_sys_id, TRUE)>>]
             ELSE teardown_loop_delete_always(Tail(users),
                     [acc EXCEPT !.store = @ \ {user_sys_id},
                                 !.log = @ \o <<TdCall("lookup", user_sys_id, FALSE),
                                                TdCall("delete", user_sys_id, FALSE)>>],
                     fail)

\* the for loop of teardown over self.users. fail is the number of the call,
\* lookups and deletes counted together from 1, that raises; 0 when none does
RECURSIVE teardown_loop(_, _, _)
teardown_loop(users, acc, fail) ==
    IF users = <<>> THEN acc
    ELSE LET user_sys_id == Head(users)
             n == Len(acc.log) + 1
             user_record == user_sys_id \in acc.store
         IN  IF fail = n
             THEN [acc EXCEPT !.raised = TRUE,
                              !.log = Append(@, TdCall("lookup", user_sys_id, TRUE))]
             ELSE IF ~user_record
             THEN teardown_loop(Tail(users),
                     [acc EXCEPT !.log = Append(@, TdCall("lookup", user_sys_id, FALSE))],
                     fail)
             ELSE IF fail = n + 1
             THEN [acc EXCEPT !.raised = TRUE,
                              !.log = @ \o <<TdCall("lookup", user_sys_id, FALSE),
                                             TdCall("delete", user_sys_id, TRUE)>>]
             ELSE teardown_loop(Tail(users),
                     [acc EXCEPT !.store = @ \ {user_sys_id},
                                 !.log = @ \o <<TdCall("lookup", user_sys_id, FALSE),
                                                TdCall("delete", user_sys_id, FALSE)>>],
                     fail)

\* teardown of a multi-user task (the users are looked up and deleted, then
\* the base teardown runs) or of a comparison task (the base teardown only)
teardown(c, users, store, fail) ==
    LET start == [store |-> store, log |-> <<>>, raised |-> FALSE]
        looped == IF c \in UserLoopClasses THEN teardown_loop(users, start, fail) ELSE start
    IN  IF looped.raised THEN looped ELSE CompositionalTask_teardown(looped)

InitTeardown ==
    /\ NoComparison
    /\ NoConditional
    /\ NoSample
    /\ NoOffboard
    /\ NoSetup
    /\ NoEpisodes
    /\ NoExpense
    /\ td_class \in TdClasses
    /\ td_users = <<>>
    /\ td_created = {}
    /\ td_store = {}
    /\ td_log = <<>>
    /\ td_pc = "constructed"
    /\ td_teardowns = 0
    /\ td_failed = 0

\* setup_goal with no fixed_config, with at most one creation call failing
TdSetupGoal ==
    /\ td_pc = "constructed"
    /\ \/ /\ td_class \in UserLoopClasses
          /\ \E outcomes \in OneFailure(2 * num_items(td_class)) :
                LET r == user_passes(td_class, 1, outcomes,
                                     [users |-> <<>>, store |-> {}, raised |-> None, failed |-> 0])
                IN  /\ td_users' = r.users
                    /\ td_created' = r.store
                    /\ td_store' = r.store
                    /\ td_failed' = r.failed
                    /\ td_pc' = IF r.raised # None THEN "setup_raised" ELSE "ready"
       \/ /\ td_class \in Kinds
          /\ \E pool \in Pools(td_class), d1 \in choice(MaxPool), d2 \in choice(MaxPool),
                outcomes \in OneFailure(2), uuids \in UuidInputs("CompareHardwareDate") :
                LET r == compare_setup_goal(td_class, <<>>, pool, d1, d2,
                                            outcomes[1], outcomes[2], uuids)
                IN  /\ td_users' = <<>>
                    /\ td_failed' = IF r.raised # None THEN 1 ELSE 0
                    /\ td_created' = r.store
                    /\ td_store' = r.store
                    /\ td_pc' = IF r.raised # None THEN "setup_raised" ELSE "ready"
    /\ UNCHANGED <<td_class, td_log, td_teardowns>>
    /\ UNCHANGED <<cmpVars, condVars, smpVars, obVars, suVars, epVars, exVars>>

\* during the episode the agent deletes one of the users
TdAgentDelete ==
    /\ td_pc = "ready"
    /\ td_class \in UserLoopClasses
    /\ \E i \in 1..Len(td_users) :
          /\ td_users[i] \in td_store
          /\ td_store' = td_store \ {td_users[i]}
    /\ UNCHANGED <<td_class, td_users, td_created, td_log, td_pc, td_teardowns, td_failed>>
    /\ UNCHANGED <<cmpVars, condVars, smpVars, obVars, suVars, epVars, exVars>>

\* teardown is called: after the episode, after a failed setup, or again
TdTeardown ==
    /\ td_pc \in {"ready", "setup_raised", "torn_down", "teardown_raised"}
    /\ td_teardowns < MaxTeardowns
    /\ \E fail \in 0..(2 * Len(td_users)) :
          LET r == teardown(td_class, td_users, td_store, fail)
          IN  /\ fail # 0 => r.raised
              /\ td_store' = r.store
              /\ td_log' = r.log
              /\ td_pc' = IF r.raised THEN "teardown_raised" ELSE "torn_down"
    /\ td_teardowns' = td_teardowns + 1
    /\ UNCHANGED <<td_class, td_users, td_created, td_failed>>
    /\ UNCHANGED <<cmpVars, condVars, smpVars, obVars, suVars, epVars, exVars>>

NextTeardown ==
    \/ TdSetupGoal
    \/ TdAgentDelete
    \/ TdTeardown

SpecTeardown == InitTeardown /\ [][NextTeardown]_vars


\* C21: a failure while cleaning up one user during teardown (the lookup or
\* the delete call raises) is swallowed: teardown completes, every other user
\* that was still present is deleted, and the base teardown still runs
C21_TeardownFailureSwallowed ==
    (/\ td_pc \in {"torn_down", "teardown_raised"}
     /\ \E i \in 1..Len(td_log) : td_log[i].raised)
    => /\ td_pc = "torn_down"
       /\ td_log[Len(td_log)].op = "super().teardown"
       /\ \A j \in 1..Len(td_users) :
             td_users[j] \in td_store
                => \E i \in 1..Len(td_log) :
                      td_log[i].raised /\ td_log[i].sys_id = td_users[j]


\* setup_goal ran to its end
SetupCompleted ==
    td_pc # "constructed" /\ td_failed = 0

\* C22: once a task was set up and then torn down without an error, every
\* record the task created during setup has been deleted from the record store
C22_TeardownDeletesCreatedRecords ==
    (td_pc = "torn_down" /\ SetupCompleted) => td_created \cap td_store = {}


\* the last teardown met no failure of the record store
NoTeardownFailure ==
    /\ td_teardowns > 0
    /\ \A i \in 1..Len(td_log) : ~td_log[i].raised

\* C23: when setup_goal of a multi-user task failed in pass k, a teardown in
\* which the record store does not fail completes without raising, and every
\* user created in the passes before k is gone from the record store
C23_TeardownAfterPartialSetup ==
    (/\ td_class \in UserLoopClasses
     /\ td_failed > 0
     /\ NoTeardownFailure)
    => /\ td_pc = "torn_down"
       /\ td_log[Len(td_log)].op = "super().teardown"
       /\ \A i \in 1..(td_failed - 1) :
             /\ SysId("sys_user", i) \in td_created
             /\ SysId("sys_user", i) \notin td_store

\* setup failed in its third pass, and teardown then deleted the two users of
\* the first two passes
C23_Witness ==
    /\ td_class \in UserLoopClasses
    /\ td_failed = 3
    /\ NoTeardownFailure
    /\ td_pc = "torn_down"
    /\ Len(td_users) = 2
    /\ {SysId("sys_user", 1), SysId("sys_user", 2)} \subseteq td_created
    /\ \E i \in 1..Len(td_log) :
          td_log[i].op = "delete" /\ td_log[i].sys_id = SysId("sys_user", 2)
    /\ SysId("sys_user", 1) \notin td_store
    /\ SysId("sys_user", 2) \notin td_store


\* the users teardown deleted, in the order of the delete calls
Deleted(log) == {log[i].sys_id : i \in {j \in 1..Len(log) : log[j].op = "delete"}}

\* C30: for the multi-user tasks whose setup completed, a teardown that
\* completes without error leaves none of the users created during setup in
\* the record store, whichever of them the agent deleted before; it issues a
\* delete only for a user that was still present, right after that user's
\* lookup; and a teardown that follows a completed teardown issues no delete
C30_TeardownDeletesWhatIsLeft ==
    [][(/\ td_class \in UserLoopClasses
        /\ SetupCompleted
        /\ TdTeardown)
       => /\ td_pc' = "torn_down"
              => \A i \in 1..Len(td_users) : td_users[i] \notin td_store'
          /\ Deleted(td_log') \subseteq td_store
          /\ \A i \in 1..Len(td_log') :
                td_log'[i].op = "delete"
                   => /\ i > 1
                      /\ td_log'[i - 1] = TdCall("lookup", td_log'[i].sys_id, FALSE)
          /\ td_pc = "torn_down" => Deleted(td_log') = {}]_vars

\* the agent deleted one of the three users, and the first teardown looked up
\* all three and deleted the two that were left
C30_Witness ==
    /\ td_class \in UserLoopClasses
    /\ SetupCompleted
    /\ td_pc = "torn_down"
    /\ td_teardowns = 1
    /\ Len(td_users) = 3
    /\ Cardinality(Deleted(td_log)) = 2
    /\ Cardinality({i \in 1..Len(td_log) : td_log[i].op = "lookup"}) = 3
    /\ \A i \in 1..Len(td_users) : td_users[i] \notin td_store

\* a teardown that followed a completed teardown: three lookups, no delete
C30_SecondTeardown ==
    /\ td_class \in UserLoopClasses
    /\ SetupCompleted
    /\ td_pc = "torn_down"
    /\ td_teardowns = 2
    /\ Deleted(td_log) = {}
    /\ Cardinality({i \in 1..Len(td_log) : td_log[i].op = "lookup"}) = 3


-----------------------------------------------------------------------------
(* Two episodes side by side: the identifiers two tasks of one class        *)
(* generate in setup_goal                                                    *)

EpClasses == UserLoopClasses \cup Kinds

\* values of id(self): two objects of one process have different addresses,
\* objects of two processes may have the same one
EpObjectIds == ObjectIds \cup {240737001}

\* values of uuid4(): no two calls, in any process, return the same value
EpUuids == Uuids \cup {<<"7", "0", "-", "4", "1">>}

Identifier(what, value) == [what |-> what, value |-> value]

\* the numbers f"SN-{unique_id}", f"CHG{unique_id}", ... of the two records
compare_identifiers(k, uuids) ==
    {Identifier("number", Record(k, uuids[i], <<>>).number) : i \in 1..2}

\* the names and asset tags of the passes of the loop of setup_goal
user_identifiers(c, id, names) ==
    UNION {LET item == loop_item(c, 0, id, i, names[i], <<>>)
           IN  {Identifier("user name", item.user_full_name)}
                  \cup (IF c = "OffBoardMultipleUserTask"
                        THEN {Identifier("laptop asset tag", item.laptop_asset_tag)}
                        ELSE {}) : i \in 1..num_items(c)}

InitEpisodes ==
    /\ NoComparison
    /\ NoConditional
    /\ NoSample
    /\ NoOffboard
    /\ NoSetup
    /\ NoTeardown
    /\ NoExpense
    /\ ep_class \in EpClasses
    /\ ep_a = {}
    /\ ep_b = {}
    /\ \E p \in 1..2, id_a \in EpObjectIds, id_b \in EpObjectIds :
          /\ p = 1 => id_a # id_b
          /\ ep_pc = [a |-> [pc |-> "constructed", process |-> 1, id |-> id_a],
                      b |-> [pc |-> "constructed", process |-> p, id |-> id_b]]

\* setup_goal of task t, whose identifiers go to mine; other holds the
\* identifiers of the other task
EpSetupGoal(t, mine, other) ==
    /\ ep_pc[t].pc = "constructed"
    /\ \/ /\ ep_class \in Kinds
          /\ \E uuids \in {<<u1, u2>> : u1 \in EpUuids, u2 \in EpUuids} :
                /\ uuids[1] # uuids[2]
                /\ compare_identifiers(ep_class, uuids) \cap other = {}
                /\ mine' = compare_identifiers(ep_class, uuids)
       \/ /\ ep_class \in UserLoopClasses
          /\ \E names \in NameInputs(ep_class) :
                mine' = user_identifiers(ep_class, ep_pc[t].id, names)
    /\ ep_pc' = [ep_pc EXCEPT ![t].pc = "set_up"]
    /\ UNCHANGED ep_class
    /\ UNCHANGED <<cmpVars, condVars, smpVars, obVars, suVars, tdVars, exVars>>

EpSetupGoalA == EpSetupGoal("a", ep_a, ep_b) /\ UNCHANGED ep_b

EpSetupGoalB == EpSetupGoal("b", ep_b, ep_a) /\ UNCHANGED ep_a

NextEpisodes ==
    \/ EpSetupGoalA
    \/ EpSetupGoalB

SpecEpisodes == InitEpisodes /\ [][NextEpisodes]_vars

\* C24: when two tasks have both run setup_goal, in one process or in two, no
\* identifier generated by one (record number, laptop asset tag, user name)
\* equals an identifier generated by the other
C24_IdentifiersDisjoint ==
    (ep_pc["a"].pc = "set_up" /\ ep_pc["b"].pc = "set_up")
        => ep_a \cap ep_b = {}


-----------------------------------------------------------------------------
(* validate after cheat, on a transcript that may already hold messages *)

\* the driver calls validate once cheat has finished, in full mode or after
\* the last step
CheatedValidate ==
    /\ cmp_pc = "cheated"
    /\ cmp_ret' = validate(kind, polarity, record1, record2, chat_messages)
    /\ chat_messages' = transcript_after_validate(chat_messages)
    /\ cmp_pc' = "cheat_validated"
    /\ UNCHANGED <<kind, polarity, record1, record2, used_uuids, cheat_log, driver>>
    /\ UNCHANGED <<condVars, smpVars, obVars, suVars, tdVars, epVars, exVars>>

NextSolve ==
    \/ CompareSetupGoal
    \/ AppendMessage
    \/ DriverStepCheat
    \/ DriverFullCheat
    \/ CheatedValidate

SpecSolve == InitCompare /\ [][NextSolve]_vars

\* C25: for every comparison task and both polarities, validate called after a
\* full-mode cheat or after a complete in-order step-mode run returns reward
\* 1.0 and done, whatever entries the transcript held before cheat; the answer
\* cheat appended names the record validate takes as the correct one
C25_CheatThenValidateSucceeds ==
    cmp_pc = "cheat_validated"
        => /\ cmp_ret.reward = 10
           /\ cmp_ret.done
           /\ LET answer == chat_messages[Len(chat_messages)]
                  correct == get_selected(kind, polarity, record1, record2)
              IN  /\ answer = Dict("assistant", cheat_message(kind, polarity, correct))
                  /\ scan(<<answer>>, correct.number, FALSE)
                  /\ scan(<<answer>>, correct.attr, FALSE)

\* the step-wise driver ran on a transcript that already held two entries, the
\* second record is the selected one, and validate was called
C25_Witness ==
    /\ cmp_pc = "cheat_validated"
    /\ driver = "step"
    /\ Len(chat_messages) = MaxMessages + 4
    /\ get_selected(kind, polarity, record1, record2) = record2
    /\ cmp_ret.reward = 10

\* a full-mode cheat on a transcript that held an entry, then validate
C25_FullModeWitness ==
    /\ cmp_pc = "cheat_validated"
    /\ driver = "full"
    /\ Len(chat_messages) = 2
    /\ cmp_ret.reward = 10


-----------------------------------------------------------------------------
(* The reward as a function of the transcript *)

\* the texts of a transcript, without their order, roles and repetitions
TextSet(msgs) == {message_text(msgs[i]) : i \in 1..Len(msgs)}

\* what validate returns when only the set of texts is known
validate_of_texts(k, pol, r1, r2, texts) ==
    LET correct == get_selected(k, pol, r1, r2)
    IN  validate_return(k, \E t \in texts : Contains(t, correct.number),
                           \E t \in texts : Contains(t, correct.attr))

\* C26: the reward is monotone in the transcript: appending an entry never
\* lowers the reward validate returns, a transcript that earned reward 1.0 and
\* done keeps earning it after every entry appended, and what validate returns
\* depends only on the set of the entries' texts, not on roles or order
C26_RewardMonotone ==
    [][(cmp_pc' = "ready" /\ AppendMessage)
       => LET before == validate(kind, polarity, record1, record2, chat_messages)
              after == validate(kind, polarity, record1, record2, chat_messages')
          IN  /\ after.reward >= before.reward
              /\ (before.reward = 10 /\ before.done) => (after.reward = 10 /\ after.done)
              /\ after = validate_of_texts(kind, polarity, record1, record2,
                                           TextSet(chat_messages'))]_vars

\* an entry of the user earned reward 1.0, an entry naming neither the record
\* nor the attribute was appended after it, and validate still returns 1.0
C26_Witness ==
    /\ cmp_pc = "validated"
    /\ Len(chat_messages) = 2
    /\ chat_messages[1].role = "user"
    /\ validate(kind, polarity, record1, record2, <<chat_messages[1]>>).reward = 10
    /\ validate(kind, polarity, record1, record2, <<chat_messages[2]>>).reward = 0
    /\ cmp_ret.reward = 10
    /\ cmp_ret.done


-----------------------------------------------------------------------------
(* The two amounts of CompareExpenseLineAmountTask._get_config *)

\* self.random.randint(1000, 10000): the low end as in the code, the high end
\* brought down
AmountLow == 1000
AmountHigh == 1008

\* a while condition that never asks for another draw
while_never(amount1, amount2) == FALSE

\* while amount2 == amount1
while_condition(amount1, amount2) == amount2 = amount1

\* str(n) for n >= 0
RECURSIVE str_int(_)
str_int(n) ==
    IF n < 10 THEN <<Digits[n + 1]>> ELSE str_int(n \div 10) \o <<Digits[(n % 10) + 1]>>

\* the expense line as the record store returns it for an amount
expense_record(uuid, amount) ==
    Record("CompareExpenseLineAmountTask", uuid, str_int(amount))

InitExpense ==
    /\ NoComparison
    /\ NoConditional
    /\ NoSample
    /\ NoOffboard
    /\ NoSetup
    /\ NoTeardown
    /\ NoEpisodes
    /\ ex_amount1 = 0
    /\ ex_amount2 = 0
    /\ ex_pc = "_get_config"

\* amount1 = self.random.randint(1000, 10000)
ExDrawFirst ==
    /\ ex_pc = "_get_config"
    /\ ex_amount1' \in randint(AmountLow, AmountHigh)
    /\ ex_pc' = "amount1 drawn"
    /\ UNCHANGED ex_amount2
    /\ UNCHANGED <<cmpVars, condVars, smpVars, obVars, suVars, tdVars, epVars>>

\* amount2 = self.random.randint(1000, 10000)
ExDrawSecond ==
    /\ ex_pc = "amount1 drawn"
    /\ ex_amount2' \in randint(AmountLow, AmountHigh)
    /\ ex_pc' = "while"
    /\ UNCHANGED ex_amount1
    /\ UNCHANGED <<cmpVars, condVars, smpVars, obVars, suVars, tdVars, epVars>>

\* the body of the while loop, with the value the generator yields
ExRedrawTo(v) ==
    /\ ex_pc = "while"
    /\ while_condition(ex_amount1, ex_amount2)
    /\ ex_amount2' = v
    /\ UNCHANGED <<ex_amount1, ex_pc>>
    /\ UNCHANGED <<cmpVars, condVars, smpVars, obVars, suVars, tdVars, epVars>>

ExRedraw == \E v \in randint(AmountLow, AmountHigh) : ExRedrawTo(v)

\* the while condition is false: the amounts go to create_expense_line
ExLeaveLoop ==
    /\ ex_pc = "while"
    /\ ~while_condition(ex_amount1, ex_amount2)
    /\ ex_pc' = "amounts drawn"
    /\ UNCHANGED <<ex_amount1, ex_amount2>>
    /\ UNCHANGED <<cmpVars, condVars, smpVars, obVars, suVars, tdVars, epVars>>

NextExpense ==
    \/ ExDrawFirst
    \/ ExDrawSecond
    \/ ExRedraw
    \/ ExLeaveLoop

SpecExpense == InitExpense /\ [][NextExpense]_vars

\* the generator is fair: the code keeps running, and a generator asked again
\* and again yields every value of the range, so each value is drawn at some
\* pass of a loop that keeps asking
SpecExpenseFair ==
    /\ SpecExpense
    /\ WF_vars(NextExpense)
    /\ \A v \in randint(AmountLow, AmountHigh) : SF_vars(ExRedrawTo(v))

\* the comparison is decided by a strict inequality of the two amounts, for
\* both polarities
NoTieBreak ==
    \A pol \in BOOLEAN :
        LET k == "CompareExpenseLineAmountTask"
            e1 == expense_record(<<>>, ex_amount1)
            e2 == expense_record(<<>>, ex_amount2)
            selected == get_selected(k, pol, e1, e2)
            other == IF selected = e1 THEN e2 ELSE e1
        IN  IF pol THEN ToNumber(selected.attr) > ToNumber(other.attr)
            ELSE ToNumber(selected.attr) < ToNumber(other.attr)

\* C27: _get_config of the expense comparison draws the second amount again
\* until it differs from the first: under a fair generator the loop is left,
\* and whenever it is left the two amounts differ, so that the comparison of
\* the two expense lines is never decided by the tie rule
C27_RedrawUntilDifferent ==
    /\ [](ex_pc = "amounts drawn" => (ex_amount1 # ex_amount2 /\ NoTieBreak))
    /\ <>(ex_pc = "amounts drawn")

\* the second draw equalled the first, the loop drew again, and was left
C27_Witness ==
    /\ ex_pc = "amounts drawn"
    /\ ex_amount1 = AmountLow
    /\ ex_amount2 = AmountHigh - 1
    /\ NoTieBreak


-----------------------------------------------------------------------------
(* The two branches of a conditional composite task *)

\* the controlling values a task can meet: those of the pool, mapped and
\* unmapped, and a record whose value is the word the code uses for the
\* default item
ControlValues(c) == {ControlPool(c)[i] : i \in 1..Len(ControlPool(c))} \cup {"default"}

\* C28: in every conditional composite task, for every controlling value,
\* mapped or not, and every draw of the candidate, the condition value named
\* in the false branch's prefix differs from the one named in the true
\* branch's prefix
C28_BranchPrefixesDiffer ==
    /\ \A c \in CondClasses : \A value \in ControlValues(c) :
          \A i \in candidate_draws(c, value) :
             /\ get_candidate(c, value, i)[1] # value
             /\ branch_prefix(c, get_candidate(c, value, i)[1]) # branch_prefix(c, value)
    /\ subtasks # <<>> =>
          /\ conditional.false_branch_prefix # conditional.true_branch_prefix
          /\ conditional.false_branch_prefix[2] # conditional.true_branch_prefix[2]

\* a task was set up whose controlling value is not a key of the dict, so that
\* its true branch is the default one
C28_Witness ==
    /\ cond_pc = "ready"
    /\ subtasks # <<>>
    /\ conditional.true_branch_prefix[2] \in {"HR", "Computer"}
    /\ conditional.false_branch_prefix[2] \in {"Sales", "IT", "Finance", "Laptop", "Desktop"}


EditConditionalClasses == CondClasses \ {"OnBoardUserConditionalTask"}

\* the elements of a list the drawn indices can select
Drawable(list, draws) == {list[i + 1] : i \in draws \cap (0..(Len(list) - 1))}

\* C29: in the Edit* conditional tasks the index draw can select every element
\* of the list it draws from: every candidate category other than the target's
\* (the appended "default" included) can become the false branch, every
\* configuration of the pool (the last included) can become the target, and
\* every index drawn is within the list
C29_DrawReachesEveryElement ==
    \A c \in EditConditionalClasses \cap {cond_class} :
        /\ pool_draws(c) \subseteq 0..(Len(ControlPool(c)) - 1)
        /\ Drawable(ControlPool(c), pool_draws(c))
              = {ControlPool(c)[i] : i \in 1..Len(ControlPool(c))}
        /\ \A value \in ControlValues(c) :
              LET candidate_configs == edit_candidates(c, value)
              IN  /\ candidate_draws(c, value) \subseteq 0..(Len(candidate_configs) - 1)
                  /\ Drawable(candidate_configs, candidate_draws(c, value))
                        = {candidate_configs[i] : i \in 1..Len(candidate_configs)}

\* in no episode is the last configuration of the pool the target, nor the
\* appended default item the false branch
C29_LastElementNeverDrawn ==
    (subtasks # <<>> /\ cond_class \in EditConditionalClasses)
        => /\ conditional.true_branch_prefix[2]
                 # ControlPool(cond_class)[Len(ControlPool(cond_class))]
           /\ conditional.false_branch_prefix[2] # "default"

=============================================================================
